---- MODULE Spec2Model ----
(***************************************************************************)
(* A state-machine model of effective-security/xlog:                       *)
(*   - the level registry and the package logger handles (logmap.go,       *)
(*     packagelogger.go),                                                   *)
(*   - the channel writer of package logrotate (the bounded queue, the     *)
(*     background task, Stop),                                              *)
(*   - the rotation wrapper (logrotate.go: Initialize / Close).            *)
(* Each subsystem has its own specification over the shared variables.     *)
(***************************************************************************)
EXTENDS Integers, Sequences, FiniteSets, TLC

VARIABLES
    repoMap,    \* logger.repoMap: repo -> (pkg -> *PackageLogger [pkg, level, values])
    derived,    \* the PackageLogger objects WithValues returned, in creation order
    formatter,  \* logger.formatter ("nil" when unset)
    onError,    \* logger.onError is set
    lastOp      \* the last call made and what it did (observation only)

regVars == <<repoMap, derived, formatter, onError, lastOp>>

\* The channel writer (logrotate.ChannelWriter) with its callers and its sink.
VARIABLES
    cwState,     \* "Running", "Stopping" (Stop called, draining) or "Stopped"
    chClosed,    \* the queue channel has been closed
    queue,       \* the buffers queued, oldest first
    tickPending, \* the flush ticker has fired and the task has not taken it yet
    ticks,       \* how often the ticker has fired
    flushable,   \* the destination has a Flush method
    sink,        \* testWriter.writes: what the destination received, in order
    flushCount,  \* testFlushWriter.flushCount
    callerBuf,   \* each producer's own byte slice
    pcW,         \* each producer: "idle" or "writing" (inside Write)
    callOf,      \* each producer: the number of its current Write call
    pcS,         \* each stopper: "idle", "waiting" (inside Stop) or "returned"
    calls,       \* per Write call: [by, data, late, result] (observation only)
    accepted,    \* the calls that enqueued, in enqueue order (observation only)
    obs,         \* observation only: [stopQueued, stopInFlight, dirty]
    panicked     \* a send on, or a close of, the closed channel happened

cwVars == <<cwState, chClosed, queue, tickPending, ticks, flushable, sink,
            flushCount, callerBuf, pcW, callOf, pcS, calls, accepted, obs,
            panicked>>

\* The rotation wrapper (logrotate.logrotator) and the threads calling Close.
VARIABLES
    rot,         \* the logrotator: [made, oldFormatter, fileBuf, buffered,
                 \*   channel, closed]; fileBuf, channel: the field is non-nil
    pcC,         \* each closer: where it is inside Close ("idle" outside)
    closeLog,    \* what the Close calls returned, in order of return
    fileFlushes, \* how often Close flushed the file buffer
    onDisk       \* how many of the writes made to the file buffer it has
                 \*   passed on to the file

rotVars == <<rot, pcC, closeLog, fileFlushes, onDisk>>

\* Threads calling into the registry concurrently.
VARIABLES
    mu,          \* logger.Mutex: the thread holding it, or "none"
    thr          \* each thread: the call it is in and where it is inside it

thrVars == <<mu, thr>>

\* The log entries a context.Context carries (context.go).
VARIABLES
    ctx,         \* the contextLogs of the context in use: [made, kvMap, entries]
    given        \* key -> the value the latest call that returned gave it

ctxVars == <<ctx, given>>

\* what neither the registry calls made one at a time, nor the channel
\* writer, nor the rotation wrapper touch
\* Several rotation wrappers in use at the same time.
VARIABLES
    wraps        \* each logrotator: [made, oldFormatter, closed]

wrapVars == <<wraps>>

others == <<thrVars, ctxVars, wrapVars>>

vars == <<regVars, cwVars, rotVars, others>>

\* what a registry call leaves alone, and what a channel writer step does
notReg == <<cwVars, rotVars, others>>
notCW == <<regVars, rotVars, others>>

(***************************************************************************)
(* Bounds of the model                                                     *)
(***************************************************************************)
MaxDerived == 1
\* the handles WithValues makes where the sharing of their slices is followed
MaxChain == 3
\* the capacity of the queue (256 in Initialize, 200 in the tests)
QueueCap == 2
\* Write calls made in one run
MaxWrites == 3
\* ticks of the flush ticker in one run
MaxTicks == 2
\* how many Close calls are made
MaxCloses == 3

(***************************************************************************)
(* logmap.go: the levels                                                   *)
(***************************************************************************)
CRITICAL == -1
ERROR == 0
WARNING == 1
NOTICE == 2
INFO == 3
TRACE == 4
DEBUG == 5

Levels == CRITICAL..DEBUG

Repos == {"r1", "r2"}
Pkgs == {"a", "b"}

\* Values passed as keys and values. Go strings are the members of Strings;
\* "int7" stands for a value of another type, "nil" for the nil interface.
Strings == {"k1", "k2", "k3", "v1", "v2", ""}
Values == Strings \cup {"int7", "nil"}

Formatters == {"nil", "F1", "F2"}

\* The levels and the package-to-level maps passed to the level setters; "c"
\* is a package name that is never registered.
SetLevels == {ERROR, DEBUG}
MapKeys == {"*", "a", "b", "c"}
LevelMaps == UNION {[K -> SetLevels] : K \in SUBSET MapKeys}

\* the orders in which a range loop may visit the keys S of a Go map
Orders(S) ==
    {ks \in [1..Cardinality(S) -> S] : \A i, j \in DOMAIN ks : i # j => ks[i] # ks[j]}

\* The argument lists the model passes to WithValues and to the log calls.
KVInputs == {<<"k1", "v1">>, <<"int7", "v1">>}
LogInput == <<"k1", "v1">>
\* The names and level strings passed to the setters that take names; "r3"
\* and "c" are never registered, "bogus" is no level.
NameRepos == {"r1", "r3", "*"}
NamePkgs == {"a", "c", ""}
LevelStrings == {"DEBUG", "bogus"}
CfgEntries ==
    [Repo : {"r1", "*"}, Package : {"a", ""}, Level : LevelStrings]
\* the lists passed to SetRepoLevels
MaxCfg == 2
CfgLists == UNION {[1..n -> CfgEntries] : n \in 0..MaxCfg}
\* The trailing arguments passed to KV and ContextKV: well-formed, with an
\* odd count, with a key that is no string, and none.
KVArgs == {<<"k1", "v1">>, <<"k1">>, <<"k1", "v1", "k2">>, <<"int7", "v1">>,
           <<"k1", "v1", "int7", "v1">>, <<>>}
\* The argument lists passed to WithValues where slices are followed.
ValueInputs == {<<"k1", "v1", "k2", "v1">>, <<"k2", "v1">>, <<"k1", "v1">>}
\* What ContextEntries(ctx) returns for the context passed to ContextKV.
CtxInput == <<"k2", "v1">>

NoOp == [op |-> "none"]

\* no call is in progress: the previous caller has taken its result
Idle == lastOp = NoOp

(***************************************************************************)
(* Helpers over maps and handles                                           *)
(***************************************************************************)
EmptyMap == [x \in {} |-> 0]

Registered(repo) == repo \in DOMAIN repoMap

RegisteredPkg(repo, pkg) == Registered(repo) /\ pkg \in DOMAIN repoMap[repo]

\* A handle is a pointer to a PackageLogger: the object registered for
\* (repo, pkg), or the i-th object made by WithValues.
RegRef(repo, pkg) == <<repo, pkg, 0>>
DerRef(i) == <<"", "", i>>

HandleRefs ==
    {RegRef(repo, pkg) : repo \in Repos, pkg \in Pkgs}
        \cup {DerRef(i) : i \in 1..MaxDerived}

Live(h) ==
    IF h[3] = 0 THEN RegisteredPkg(h[1], h[2]) ELSE h[3] \in 1..Len(derived)

Obj(h) == IF h[3] = 0 THEN repoMap[h[1]][h[2]] ELSE derived[h[3]]

\* the repository's map with every package's level set to l
RepoWithLevel(r, l) == [p \in DOMAIN r |-> [r[p] EXCEPT !.level = l]]

(***************************************************************************)
(* formatters.go: flatten                                                  *)
(***************************************************************************)
EscapedString(v) == IF v \in Strings THEN <<"quoted", v>> ELSE <<"raw", v>>

RECURSIVE flattenFrom(_, _, _)
flattenFrom(printEmpty, kvList, i) ==
    IF i > Len(kvList) THEN [panic |-> FALSE, list |-> <<>>]
    ELSE IF kvList[i] \notin Strings THEN [panic |-> TRUE, list |-> <<>>]
    ELSE LET v == IF i + 1 <= Len(kvList) THEN kvList[i + 1] ELSE "nil"
             rest == flattenFrom(printEmpty, kvList, i + 2)
             keep == IF v = "nil" /\ ~printEmpty THEN FALSE
                     ELSE (v # "" \/ printEmpty)
         IN  IF rest.panic THEN rest
             ELSE IF keep
                  THEN [panic |-> FALSE,
                        list |-> <<<<kvList[i], EscapedString(v)>>>> \o rest.list]
                  ELSE rest

flatten(printEmpty, kvList) == flattenFrom(printEmpty, kvList, 1)

(***************************************************************************)
(* packagelogger.go: the level gate and the log calls                      *)
(***************************************************************************)
Filtered_OffByOne(level, inLevel) == inLevel # CRITICAL /\ level <= inLevel

\* the entry is dropped
Filtered(level, inLevel) == inLevel # CRITICAL /\ level < inLevel

\* the hook called after the level check
onErrorCalls_AfterGate(p, inLevel) ==
    IF inLevel = ERROR /\ onError /\ ~(inLevel # CRITICAL /\ p.level < inLevel)
    THEN <<p.pkg>> ELSE <<>>

onErrorCalls(p, inLevel) ==
    IF inLevel = ERROR /\ onError THEN <<p.pkg>> ELSE <<>>

\* internalLog: what one call does, as [onErr, calls, panic]
internalLog(p, t, inLevel, entries) ==
    LET hook == onErrorCalls(p, inLevel)
        es == IF Len(p.values) > 0 THEN p.values \o entries ELSE entries
    IN  IF Filtered(p.level, inLevel)
        THEN [onErr |-> hook, calls |-> <<>>, panic |-> FALSE]
        ELSE IF formatter = "nil"
        THEN [onErr |-> hook, calls |-> <<>>, panic |-> FALSE]
        ELSE IF t = "plain"
        THEN [onErr |-> hook,
              calls |-> <<[fn |-> "Format", pkg |-> p.pkg, level |-> inLevel,
                           entries |-> es, to |-> formatter]>>,
              panic |-> FALSE]
        ELSE [onErr |-> hook,
              calls |-> <<[fn |-> "FormatKV", pkg |-> p.pkg, level |-> inLevel,
                           entries |-> es, to |-> formatter]>>,
              \* FormatKV flattens its entries and panics on a non-string key
              panic |-> flatten(FALSE, es).panic]

\* internalLogf: the formatted message is the single entry "msg"
internalLogf(p, inLevel) ==
    LET hook == onErrorCalls(p, inLevel)
        fl == flatten(FALSE, p.values)
    IN  IF Filtered(p.level, inLevel)
        THEN [onErr |-> hook, calls |-> <<>>, panic |-> FALSE]
        ELSE IF formatter = "nil"
        THEN [onErr |-> hook, calls |-> <<>>, panic |-> FALSE]
        ELSE IF Len(p.values) > 0 /\ fl.panic
        THEN [onErr |-> hook, calls |-> <<>>, panic |-> TRUE]
        ELSE [onErr |-> hook,
              calls |-> <<[fn |-> "Format", pkg |-> p.pkg, level |-> inLevel,
                           entries |-> IF Len(p.values) > 0
                                       THEN <<"flat", "msg">> ELSE <<"msg">>,
                           to |-> formatter]>>,
              panic |-> FALSE]

LevelAt(p, l) == p.level >= l

\* append(p.values, xs...) as the Go runtime does it.  A slice is the part
\* [1..len] of a backing array of cap elements; arr names the array (0: the
\* nil slice).  With room in the array append writes xs behind the slice, in
\* place, and every slice of the same array that reaches those positions
\* shows the new elements; without room it copies to a new array.
Cap(p) == IF "cap" \in DOMAIN p THEN p.cap ELSE 0

Arr(p) == IF "arr" \in DOMAIN p THEN p.arr ELSE 0

FitsInPlace(p, xs) == xs # <<>> /\ Len(p.values) + Len(xs) <= Cap(p)

\* the capacity of the array growslice allocates (no size-class rounding
\* below 17 elements of interface type)
GrowCap(old, needed) == IF needed > 2 * old THEN needed ELSE 2 * old

\* the WithValues objects after xs was written behind the slice of p
Overwrite(p, xs) ==
    [i \in DOMAIN derived |->
        IF derived[i].arr = Arr(p)
        THEN [derived[i] EXCEPT !.values =
                 [j \in DOMAIN @ |->
                     IF j > Len(p.values) /\ j <= Len(p.values) + Len(xs)
                     THEN xs[j - Len(p.values)] ELSE @[j]]]
        ELSE derived[i]]

\* what append(p.values, xs...) does to the WithValues objects
AfterAppend(p, xs) == IF FitsInPlace(p, xs) THEN Overwrite(p, xs) ELSE derived

\* the entries internalLog appends to p.values, if the call gets that far
LogAppends(p, kind, l, extra, entries) ==
    IF kind = "Logf" \/ Filtered(p.level, l) \/ Len(p.values) = 0 THEN <<>>
    ELSE IF kind = "ContextKV" /\ Len(extra) > 0 THEN extra \o entries
    ELSE entries

Kinds == {"Log", "Logf", "KV", "ContextKV"}

\* the entries of the context put behind the call's entries
ContextKV_EntriesFirst(p, extra, l, entries) ==
    internalLog(p, "kv", l, IF Len(extra) > 0 THEN entries \o extra ELSE entries)

\* ContextKV: the entries of the context go before the call's entries
ContextKV(p, extra, l, entries) ==
    internalLog(p, "kv", l, IF Len(extra) > 0 THEN extra \o entries ELSE entries)

LogResult(p, kind, l, extra, entries) ==
    CASE kind = "Log" -> internalLog(p, "plain", l, entries)
      [] kind = "Logf" -> internalLogf(p, l)
      [] kind = "KV" -> internalLog(p, "kv", l, entries)
      [] OTHER -> ContextKV(p, extra, l, entries)

\* Log / Logf / KV / ContextKV on handle h; extra is what the context carries
LogCall(h, kind, l, extra, entries) ==
    /\ Idle
    /\ Live(h)
    /\ kind # "ContextKV" => extra = <<>>
    /\ lastOp' = [op |-> "log", h |-> h, kind |-> kind, level |-> l,
                  fmt |-> formatter, extra |-> extra, entries |-> entries,
                  res |-> LogResult(Obj(h), kind, l, extra, entries)]
    /\ derived' = AfterAppend(Obj(h), LogAppends(Obj(h), kind, l, extra, entries))
    /\ UNCHANGED <<repoMap, formatter, onError>>
    /\ UNCHANGED notReg

\* PackageLogger.Flush: logger.formatter.Flush() under the lock, with no nil
\* check; a method call on the nil interface value panics
Flush ==
    IF formatter = "nil" THEN [calls |-> <<>>, panic |-> TRUE]
    ELSE [calls |-> <<[fn |-> "Flush", to |-> formatter]>>, panic |-> FALSE]

FlushCall(h) ==
    /\ Idle
    /\ Live(h)
    /\ lastOp' = [op |-> "Flush", h |-> h, fmt |-> formatter, res |-> Flush]
    /\ UNCHANGED <<repoMap, derived, formatter, onError>>
    /\ UNCHANGED notReg

LevelAtCall(h, l) ==
    /\ Idle
    /\ Live(h)
    /\ lastOp' = [op |-> "LevelAt", h |-> h, level |-> l,
                  ret |-> LevelAt(Obj(h), l)]
    /\ UNCHANGED <<repoMap, derived, formatter, onError>>
    /\ UNCHANGED notReg

\* Panicf / Panic / Fatalf / Fatal.  Fatalf logs through internalLogf, the
\* other three format their message first and log through internalLog.
FatalKinds == {"Fatal", "Fatalf", "Panic", "Panicf"}

FatalResult(p, kind) ==
    IF kind = "Fatalf" THEN internalLogf(p, CRITICAL)
    ELSE internalLog(p, "plain", CRITICAL, <<"msg">>)

\* the helper ending the process while the log call still holds the mutex
FatalEvents_UnderLock(kind, res) ==
    <<"lock">>
        \o (IF res.calls # <<>> THEN <<"format">> ELSE <<>>)
        \o (IF res.panic THEN <<"unlock", "panic in flatten">>
            ELSE IF kind \in {"Fatal", "Fatalf"} THEN <<"ExitFunc(1)", "unlock">>
            ELSE <<"panic", "unlock">>)

\* what happens in one call, in order: logger.Lock(), the formatter call if
\* there is one, the deferred logger.Unlock(), then ExitFunc(1) or panic(s);
\* a panic inside the log call unwinds through the Unlock and leaves
FatalEvents(kind, res) ==
    <<"lock">>
        \o (IF res.calls # <<>> THEN <<"format">> ELSE <<>>)
        \o <<"unlock">>
        \o (IF res.panic THEN <<"panic in flatten">>
            ELSE IF kind \in {"Fatal", "Fatalf"} THEN <<"ExitFunc(1)">>
            ELSE <<"panic">>)

\* ExitFunc is replaced by a function that returns; the panic is recovered
\* by the caller
FatalCall(h, kind) ==
    /\ Idle
    /\ Live(h)
    /\ lastOp' = [op |-> "fatal", h |-> h, kind |-> kind, fmt |-> formatter,
                  res |-> FatalResult(Obj(h), kind),
                  events |-> FatalEvents(kind, FatalResult(Obj(h), kind))]
    /\ derived' = AfterAppend(Obj(h),
                              LogAppends(Obj(h),
                                         IF kind = "Fatalf" THEN "Logf" ELSE "Log",
                                         CRITICAL, <<>>, <<"msg">>))
    /\ UNCHANGED <<repoMap, formatter, onError>>
    /\ UNCHANGED notReg

\* the slice append returns: p's own when nothing is appended, p's array
\* when the elements fit, a new array otherwise
AppendResult(p, xs, new) ==
    IF xs = <<>> THEN [values |-> p.values, arr |-> Arr(p), cap |-> Cap(p)]
    ELSE IF FitsInPlace(p, xs)
    THEN [values |-> p.values \o xs, arr |-> Arr(p), cap |-> Cap(p)]
    ELSE [values |-> p.values \o xs, arr |-> new,
          cap |-> GrowCap(Cap(p), Len(p.values) + Len(xs))]

\* made: the values the object was given, kept for comparison only
WithValues(h, kv) ==
    /\ Idle
    /\ Live(h)
    /\ Len(derived) < MaxChain
    /\ LET sl == AppendResult(Obj(h), kv, Len(derived) + 1)
       IN  derived' = Append(AfterAppend(Obj(h), kv),
                             [pkg |-> Obj(h).pkg, level |-> Obj(h).level,
                              values |-> sl.values, arr |-> sl.arr,
                              cap |-> sl.cap, made |-> sl.values])
    /\ lastOp' = [op |-> "WithValues", h |-> h, ret |-> DerRef(Len(derived) + 1)]
    /\ UNCHANGED <<repoMap, formatter, onError>>
    /\ UNCHANGED notReg

(***************************************************************************)
(* logmap.go: the registry                                                 *)
(***************************************************************************)
\* a registration that always stores a fresh object
NewPackageLogger_Resets(repo, pkg) ==
    /\ Idle
    /\ LET r == IF Registered(repo) THEN repoMap[repo] ELSE EmptyMap
           p == [pkg |-> pkg, level |-> INFO, values |-> <<>>]
       IN  /\ repoMap' = (repo :> ((pkg :> p) @@ r)) @@ repoMap
           /\ lastOp' = [op |-> "NewPackageLogger", repo |-> repo,
                         pkg |-> pkg, created |-> ~RegisteredPkg(repo, pkg)]
    /\ UNCHANGED <<derived, formatter, onError>>
    /\ UNCHANGED notReg

NewPackageLogger(repo, pkg) ==
    /\ Idle
    /\ IF RegisteredPkg(repo, pkg)
       THEN /\ lastOp' = [op |-> "NewPackageLogger", repo |-> repo, pkg |-> pkg,
                          created |-> FALSE]
            /\ UNCHANGED repoMap
       ELSE LET r == IF Registered(repo) THEN repoMap[repo] ELSE EmptyMap
                p == [pkg |-> pkg, level |-> INFO, values |-> <<>>]
            IN  /\ repoMap' = (repo :> ((pkg :> p) @@ r)) @@ repoMap
                /\ lastOp' = [op |-> "NewPackageLogger", repo |-> repo,
                              pkg |-> pkg, created |-> TRUE]
    /\ UNCHANGED <<derived, formatter, onError>>
    /\ UNCHANGED notReg

setRepoLogLevelInternal(r, l) == RepoWithLevel(r, l)

\* the loop over logger.repoMap leaving after its first repository
SetGlobalLogLevel_FirstRepoOnly(l) ==
    /\ Idle
    /\ \E first \in DOMAIN repoMap \cup {""} :
          /\ (first = "") => (DOMAIN repoMap = {})
          /\ repoMap' = [repo \in DOMAIN repoMap |->
                            IF repo = first
                            THEN setRepoLogLevelInternal(repoMap[repo], l)
                            ELSE repoMap[repo]]
    /\ lastOp' = [op |-> "SetGlobalLogLevel", level |-> l]
    /\ UNCHANGED <<derived, formatter, onError>>
    /\ UNCHANGED notReg

SetGlobalLogLevel(l) ==
    /\ Idle
    /\ repoMap' = [repo \in DOMAIN repoMap |->
                      setRepoLogLevelInternal(repoMap[repo], l)]
    /\ lastOp' = [op |-> "SetGlobalLogLevel", level |-> l]
    /\ UNCHANGED <<derived, formatter, onError>>
    /\ UNCHANGED notReg

\* RepoLogger.SetRepoLogLevel, on the map GetRepoLogger(repo) returned
RepoSetRepoLogLevel(repo, l) ==
    /\ Idle
    /\ Registered(repo)
    /\ repoMap' = [repoMap EXCEPT ![repo] = setRepoLogLevelInternal(@, l)]
    /\ lastOp' = [op |-> "SetRepoLogLevel", repo |-> repo, level |-> l]
    /\ UNCHANGED <<derived, formatter, onError>>
    /\ UNCHANGED notReg

\* the range loop of SetLogLevel, visiting the keys of m in the order ks
RECURSIVE applyLevels(_, _, _)
applyLevels(r, m, ks) ==
    IF ks = <<>> THEN r
    ELSE LET k == Head(ks)
         IN  applyLevels(IF k \in DOMAIN r
                         THEN [r EXCEPT ![k] = [@ EXCEPT !.level = m[k]]]
                         ELSE r,
                         m, Tail(ks))

\* the same loop with "*" handled when the loop comes to it
RECURSIVE applyLevelsWild(_, _, _)
applyLevelsWild(r, m, ks) ==
    IF ks = <<>> THEN r
    ELSE LET k == Head(ks)
         IN  applyLevelsWild(IF k = "*" THEN RepoWithLevel(r, m[k])
                             ELSE IF k \in DOMAIN r
                             THEN [r EXCEPT ![k] = [@ EXCEPT !.level = m[k]]]
                             ELSE r,
                             m, Tail(ks))

SetLogLevelMap_WildcardInLoop(r, m, ks) == applyLevelsWild(r, m, ks)

\* the repository map r after SetLogLevel(m): "*" first, then the loop
SetLogLevelMap(r, m, ks) ==
    applyLevels(IF "*" \in DOMAIN m THEN setRepoLogLevelInternal(r, m["*"]) ELSE r,
                m, ks)

\* RepoLogger.SetLogLevel, on the map GetRepoLogger(repo) returned
SetLogLevel(repo, m) ==
    /\ Idle
    /\ Registered(repo)
    /\ \E ks \in Orders(DOMAIN m) :
          repoMap' = [repoMap EXCEPT ![repo] = SetLogLevelMap(@, m, ks)]
    /\ lastOp' = [op |-> "SetLogLevel", repo |-> repo, m |-> m]
    /\ UNCHANGED <<derived, formatter, onError>>
    /\ UNCHANGED notReg

\* ParseLevel: the level a string names; any other string gives CRITICAL
\* and an error
\* LogLevel.Char and LogLevel.String
Char(l) ==
    CASE l = CRITICAL -> "C"
      [] l = ERROR -> "E"
      [] l = WARNING -> "W"
      [] l = NOTICE -> "N"
      [] l = INFO -> "I"
      [] l = TRACE -> "T"
      [] l = DEBUG -> "D"

String_Abbreviated(l) == IF l = WARNING THEN "WARN" ELSE Char(l)

String(l) ==
    CASE l = CRITICAL -> "CRITICAL"
      [] l = ERROR -> "ERROR"
      [] l = WARNING -> "WARNING"
      [] l = NOTICE -> "NOTICE"
      [] l = INFO -> "INFO"
      [] l = TRACE -> "TRACE"
      [] l = DEBUG -> "DEBUG"

\* the message of the error ParseLevel returns: the two strings it joins
ParseLevelError(str) == <<"unable to parse log level: ", str>>

\* the decimal string of n
Itoa(n) ==
    CASE n = -1 -> "-1"
      [] n = 0 -> "0"
      [] n = 1 -> "1"
      [] n = 2 -> "2"
      [] n = 3 -> "3"
      [] n = 4 -> "4"
      [] n = 5 -> "5"
      [] n = 6 -> "6"

\* The strings passed to ParseLevel: the names, the letters and the numbers of
\* the levels, and strings that are none of them
ParseInputs ==
    {String(l) : l \in Levels} \cup {Char(l) : l \in Levels}
        \cup {Itoa(n) : n \in -1..6}
        \cup {"debug", "c", "", "bogus", "WARN", "DEBUG ", "*"}

ParseLevel(str) ==
    CASE str \in {"CRITICAL", "C"} -> [level |-> CRITICAL, err |-> FALSE]
      [] str \in {"ERROR", "0", "E"} -> [level |-> ERROR, err |-> FALSE]
      [] str \in {"WARNING", "1", "W"} -> [level |-> WARNING, err |-> FALSE]
      [] str \in {"NOTICE", "2", "N"} -> [level |-> NOTICE, err |-> FALSE]
      [] str \in {"INFO", "3", "I"} -> [level |-> INFO, err |-> FALSE]
      [] str \in {"TRACE", "4", "T"} -> [level |-> TRACE, err |-> FALSE]
      [] str \in {"DEBUG", "5", "D"} -> [level |-> DEBUG, err |-> FALSE]
      [] OTHER -> [level |-> CRITICAL, err |-> TRUE]

\* GetRepoLogger(repo): the repository's map, or an error when no package of
\* repo was registered
GetRepoLogger(rm, repo) ==
    IF repo \in DOMAIN rm THEN [err |-> FALSE, r |-> rm[repo]]
    ELSE [err |-> TRUE, r |-> EmptyMap]

\* the registry rm after SetRepoLogLevel(repo, l), the function taking the
\* repository's name
SetRepoLogLevelMap(rm, repo, l) ==
    IF GetRepoLogger(rm, repo).err THEN rm
    ELSE [rm EXCEPT ![repo] = setRepoLogLevelInternal(@, l)]

\* a package name the repository does not know taken as naming all of it
SetPackageLogLevelMap_UnknownIsAll(rm, repo, pkg, l) ==
    IF pkg = "" \/ pkg = "*" THEN SetRepoLogLevelMap(rm, repo, l)
    ELSE IF GetRepoLogger(rm, repo).err THEN rm
    ELSE IF pkg \in DOMAIN rm[repo]
    THEN [rm EXCEPT ![repo][pkg].level = l]
    ELSE SetRepoLogLevelMap(rm, repo, l)

\* the registry rm after SetPackageLogLevel(repo, pkg, l)
SetPackageLogLevelMap(rm, repo, pkg, l) ==
    IF pkg = "" \/ pkg = "*" THEN SetRepoLogLevelMap(rm, repo, l)
    ELSE IF GetRepoLogger(rm, repo).err THEN rm
    ELSE IF pkg \in DOMAIN rm[repo]
    THEN [rm EXCEPT ![repo][pkg].level = l]
    ELSE rm

\* the registry rm after SetGlobalLogLevel(l)
SetGlobalLogLevelMap(rm, l) ==
    [repo \in DOMAIN rm |-> setRepoLogLevelInternal(rm[repo], l)]

\* an entry with a malformed level changes nothing
SetRepoLevelMap_Skips(rm, cfg) ==
    IF ParseLevel(cfg.Level).err THEN rm
    ELSE IF cfg.Repo = "*" THEN SetGlobalLogLevelMap(rm, ParseLevel(cfg.Level).level)
    ELSE SetPackageLogLevelMap(rm, cfg.Repo, cfg.Package,
                               ParseLevel(cfg.Level).level)

\* the registry rm after SetRepoLevel(cfg): the error of ParseLevel is dropped
SetRepoLevelMap(rm, cfg) ==
    LET l == ParseLevel(cfg.Level).level
    IN  IF cfg.Repo = "*" THEN SetGlobalLogLevelMap(rm, l)
        ELSE SetPackageLogLevelMap(rm, cfg.Repo, cfg.Package, l)

\* the registry rm after SetRepoLevels(cfgs): the entries in order
RECURSIVE SetRepoLevelsMap(_, _)
SetRepoLevelsMap(rm, cfgs) ==
    IF cfgs = <<>> THEN rm
    ELSE SetRepoLevelsMap(SetRepoLevelMap(rm, Head(cfgs)), Tail(cfgs))

SetRepoLogLevel(repo, l) ==
    /\ Idle
    /\ repoMap' = SetRepoLogLevelMap(repoMap, repo, l)
    /\ lastOp' = [op |-> "SetRepoLogLevelByName", repo |-> repo, level |-> l]
    /\ UNCHANGED <<derived, formatter, onError>>
    /\ UNCHANGED notReg

SetPackageLogLevel(repo, pkg, l) ==
    /\ Idle
    /\ repoMap' = SetPackageLogLevelMap(repoMap, repo, pkg, l)
    /\ lastOp' = [op |-> "SetPackageLogLevel", repo |-> repo, pkg |-> pkg,
                  level |-> l]
    /\ UNCHANGED <<derived, formatter, onError>>
    /\ UNCHANGED notReg

\* a call of ParseLevel, and what it returns
ParseLevelCall(str) ==
    /\ Idle
    /\ lastOp' = [op |-> "ParseLevel", str |-> str,
                  level |-> ParseLevel(str).level,
                  err |-> ParseLevel(str).err,
                  msg |-> IF ParseLevel(str).err THEN ParseLevelError(str)
                          ELSE <<>>]
    /\ UNCHANGED <<repoMap, derived, formatter, onError>>
    /\ UNCHANGED notReg

\* ParseLevel(l.String()) and ParseLevel(l.Char())
RoundTrip(l, via) ==
    /\ Idle
    /\ LET str == IF via = "String" THEN String(l) ELSE Char(l)
       IN  lastOp' = [op |-> "RoundTrip", via |-> via, l |-> l, str |-> str,
                      level |-> ParseLevel(str).level,
                      err |-> ParseLevel(str).err]
    /\ UNCHANGED <<repoMap, derived, formatter, onError>>
    /\ UNCHANGED notReg

\* GetRepoLevels: the entries of one repository, its packages visited in the
\* order po; the package registered under the empty name is reported as "*"
RepoEntries(rm, repo, po) ==
    [i \in 1..Len(po) |->
        [Repo |-> repo,
         Package |-> IF po[i] = "" THEN "*" ELSE po[i],
         Level |-> String(rm[repo][po[i]].level)]]

\* the repositories visited in the order ro, from the i-th on
RECURSIVE EntriesFrom(_, _, _, _)
EntriesFrom(rm, ro, pos, i) ==
    IF i > Len(ro) THEN <<>>
    ELSE RepoEntries(rm, ro[i], pos[ro[i]]) \o EntriesFrom(rm, ro, pos, i + 1)

\* the lists GetRepoLevels may return: the two range loops visit the keys of
\* their maps in an order the runtime picks
GetRepoLevels(rm) ==
    LET pkgOrders ==
            {f \in [DOMAIN rm -> UNION {Orders(DOMAIN rm[r]) : r \in DOMAIN rm}] :
                \A r \in DOMAIN rm : f[r] \in Orders(DOMAIN rm[r])}
    IN  {EntriesFrom(rm, ro, pos, 1) : ro \in Orders(DOMAIN rm), pos \in pkgOrders}

\* SetRepoLevels(GetRepoLevels()), nothing else in between
SnapshotRoundTrip ==
    /\ Idle
    /\ \E list \in GetRepoLevels(repoMap) :
          /\ repoMap' = SetRepoLevelsMap(repoMap, list)
          /\ lastOp' = [op |-> "SnapshotRoundTrip", list |-> list,
                        before |-> repoMap]
    /\ UNCHANGED <<derived, formatter, onError>>
    /\ UNCHANGED notReg

SetRepoLevels(cfgs) ==
    /\ Idle
    /\ repoMap' = SetRepoLevelsMap(repoMap, cfgs)
    /\ lastOp' = [op |-> "SetRepoLevels", cfgs |-> cfgs]
    /\ UNCHANGED <<derived, formatter, onError>>
    /\ UNCHANGED notReg

\* the lookup registering an empty repository when it finds none, and
\* returning it without error
GetRepoLoggerCall_Creates(repo) ==
    /\ Idle
    /\ repoMap' = IF Registered(repo) THEN repoMap
                  ELSE [r \in DOMAIN repoMap \cup {repo} |->
                          IF r = repo THEN EmptyMap ELSE repoMap[r]]
    /\ lastOp' = [op |-> "GetRepoLogger", repo |-> repo,
                  err |-> FALSE,
                  ret |-> GetRepoLogger(repoMap', repo).r,
                  mustPanics |-> FALSE]
    /\ UNCHANGED <<derived, formatter, onError>>
    /\ UNCHANGED notReg

\* GetRepoLogger / MustRepoLogger called for repo
GetRepoLoggerCall(repo) ==
    /\ Idle
    /\ lastOp' = [op |-> "GetRepoLogger", repo |-> repo,
                  err |-> GetRepoLogger(repoMap, repo).err,
                  ret |-> GetRepoLogger(repoMap, repo).r,
                  mustPanics |-> GetRepoLogger(repoMap, repo).err]
    /\ UNCHANGED <<repoMap, derived, formatter, onError>>
    /\ UNCHANGED notReg

RegistryBusy_Never == FALSE

\* logger.mu is held by a log call that is inside the wrapper's Write
RegistryBusy == rot.made /\ \E p \in DOMAIN pcW : pcW[p] = "writing"

SetFormatter(f) ==
    /\ Idle
    /\ ~RegistryBusy
    /\ formatter' = f
    /\ lastOp' = [op |-> "SetFormatter", f |-> f]
    /\ UNCHANGED <<repoMap, derived, onError>>
    /\ UNCHANGED notReg

OnError(fn) ==
    /\ Idle
    /\ onError' = fn
    /\ lastOp' = [op |-> "OnError", fn |-> fn]
    /\ UNCHANGED <<repoMap, derived, formatter>>
    /\ UNCHANGED notReg

(***************************************************************************)
(* logrotate: the channel writer. Its source file is not part of the       *)
(* sources at hand; it is modelled from the specification (4.3, 5, 9) and  *)
(* from its tests and its caller.                                          *)
(***************************************************************************)
Producers == {"p1", "p2"}
Stoppers == {"s1", "s2"}
\* the bytes of the n-th Write call ("message n" in the test)
MsgOf(n) == <<"message", n>>
\* what a caller overwrites its buffer with after Write returned
Scribble == <<"X">>

\* the bytes a queued buffer holds now: its own copy, or the caller's slice
\* when the buffer queued is the caller's slice itself
Bytes(item) == IF item.src = "" THEN item.data ELSE callerBuf[item.src]

CopyOf_Alias(p) == [id |-> callOf[p], src |-> p, data |-> <<>>]

\* Write copies the caller's bytes before it queues them
CopyOf(p) == [id |-> callOf[p], src |-> "", data |-> callerBuf[p]]

\* stopQueued: how many buffers were queued when Stop closed the channel
\* (-1 before that); stopInFlight: the Write calls that had not returned at
\* that moment; dirty: the calls whose caller had already overwritten its
\* buffer when the call's bytes reached the destination; full: the Write
\* calls made while the running writer's queue was full; failed: the calls
\* for whose buffer the destination's Write returned an error
ObsInit == [stopQueued |-> -1, stopInFlight |-> {}, dirty |-> {}, full |-> {},
            failed |-> {}]

\* a producer fills its buffer with the next message and calls Write
WriteBegin(p) ==
    /\ pcW[p] = "idle"
    /\ Len(calls) < MaxWrites
    /\ callerBuf' = [callerBuf EXCEPT ![p] = MsgOf(Len(calls) + 1)]
    /\ pcW' = [pcW EXCEPT ![p] = "writing"]
    /\ callOf' = [callOf EXCEPT ![p] = Len(calls) + 1]
    /\ calls' = Append(calls, [by |-> p, data |-> MsgOf(Len(calls) + 1),
                               late |-> cwState # "Running",
                               result |-> "pending"])
    /\ obs' = IF cwState = "Running" /\ Len(queue) = QueueCap
              THEN [obs EXCEPT !.full = @ \cup {Len(calls) + 1}]
              ELSE obs
    /\ UNCHANGED <<cwState, chClosed, queue, tickPending, ticks, flushable,
                   sink, flushCount, pcS, accepted, panicked>>

WriteCall(p) == WriteBegin(p) /\ UNCHANGED notCW

WriteChecksState_Not(p) == TRUE

\* Write goes on to the queue only while the writer is Running
WriteChecksState(p) == cwState = "Running"

HasRoom_Always == TRUE

\* the channel takes a buffer only while it holds fewer than its capacity
HasRoom == Len(queue) < QueueCap

\* Write, Running: the copy is sent to the channel; a full channel blocks
WriteEnqueue(p) ==
    /\ pcW[p] = "writing"
    /\ WriteChecksState(p)
    /\ IF chClosed
       THEN \* send on a closed channel
            /\ panicked' = TRUE
            /\ calls' = [calls EXCEPT ![callOf[p]].result = "panic"]
            /\ UNCHANGED <<queue, accepted>>
       ELSE /\ HasRoom
            /\ queue' = Append(queue, CopyOf(p))
            /\ accepted' = Append(accepted, callOf[p])
            /\ calls' = [calls EXCEPT ![callOf[p]].result = "ok"]
            /\ UNCHANGED panicked
    /\ pcW' = [pcW EXCEPT ![p] = "idle"]
    /\ UNCHANGED <<cwState, chClosed, tickPending, ticks, flushable, sink,
                   flushCount, callerBuf, callOf, pcS, obs>>
    /\ UNCHANGED notCW

WokenByStop_Never(p) == FALSE

\* a Write that has not queued its buffer gives up once Stop was called
WokenByStop(p) == cwState # "Running"

\* Write, Stop already called: the "writer stopped" error
WriteReject(p) ==
    /\ pcW[p] = "writing"
    /\ WokenByStop(p)
    /\ calls' = [calls EXCEPT ![callOf[p]].result = "stopped"]
    /\ pcW' = [pcW EXCEPT ![p] = "idle"]
    /\ UNCHANGED <<cwState, chClosed, queue, tickPending, ticks, flushable,
                   sink, flushCount, callerBuf, callOf, pcS, accepted, obs,
                   panicked>>
    /\ UNCHANGED notCW

\* the caller reuses its buffer after Write returned (w[0] = 'X' in the test)
Mutate(p) ==
    /\ pcW[p] = "idle"
    /\ callOf[p] # 0
    /\ callerBuf[p] # Scribble
    /\ callerBuf' = [callerBuf EXCEPT ![p] = Scribble]
    /\ UNCHANGED <<cwState, chClosed, queue, tickPending, ticks, flushable,
                   sink, flushCount, pcW, callOf, pcS, calls, accepted, obs,
                   panicked>>
    /\ UNCHANGED notCW

\* testWriter.Write: the destination keeps a copy of what it is handed
testWriterWrite(item) == Append(sink, [id |-> item.id, data |-> Bytes(item)])

NextItem_Newest == Len(queue)

\* the background task receives the oldest queued buffer
NextItem == 1

\* the background task: one buffer from the queue to the destination
Deliver ==
    /\ cwState # "Stopped"
    /\ queue # <<>>
    /\ sink' = testWriterWrite(queue[NextItem])
    /\ queue' = [i \in 1..(Len(queue) - 1) |->
                    IF i < NextItem THEN queue[i] ELSE queue[i + 1]]
    /\ obs' = IF callerBuf[calls[queue[NextItem].id].by]
                    # calls[queue[NextItem].id].data
              THEN [obs EXCEPT !.dirty = @ \cup {queue[NextItem].id}]
              ELSE obs
    /\ UNCHANGED <<cwState, chClosed, tickPending, ticks, flushable,
                   flushCount, callerBuf, pcW, callOf, pcS, calls, accepted,
                   panicked>>
    /\ UNCHANGED notCW

AfterSinkError_Stops == "Stopped"

\* the background task does not look at what the destination's Write returns
AfterSinkError == cwState

\* the background task hands the oldest queued buffer to the destination and
\* the destination's Write returns an error: the buffer is gone, nobody is
\* told
DeliverError ==
    /\ cwState # "Stopped"
    /\ queue # <<>>
    /\ queue' = [i \in 1..(Len(queue) - 1) |->
                    IF i < NextItem THEN queue[i] ELSE queue[i + 1]]
    /\ obs' = [obs EXCEPT !.failed = @ \cup {queue[NextItem].id}]
    /\ cwState' = AfterSinkError
    /\ UNCHANGED <<chClosed, tickPending, ticks, flushable, sink, flushCount,
                   callerBuf, pcW, callOf, pcS, calls, accepted, panicked>>
    /\ UNCHANGED notCW

\* the flush ticker fires; a tick not yet taken is not queued twice
TickFire ==
    /\ cwState # "Stopped"
    /\ ticks < MaxTicks
    /\ ~tickPending
    /\ tickPending' = TRUE
    /\ ticks' = ticks + 1
    /\ UNCHANGED <<cwState, chClosed, queue, flushable, sink, flushCount,
                   callerBuf, pcW, callOf, pcS, calls, accepted, obs, panicked>>
    /\ UNCHANGED notCW

FlushOnTick_Always == TRUE

\* the destination is flushed only when it has a Flush method
FlushOnTick == flushable

\* the background task takes a tick: testFlushWriter.Flush
HandleTick ==
    /\ cwState # "Stopped"
    /\ tickPending
    /\ tickPending' = FALSE
    /\ flushCount' = IF FlushOnTick THEN flushCount + 1 ELSE flushCount
    /\ UNCHANGED <<cwState, chClosed, queue, ticks, flushable, sink,
                   callerBuf, pcW, callOf, pcS, calls, accepted, obs, panicked>>
    /\ UNCHANGED notCW

DrainedBeforeDone_Not == TRUE

\* the background task ends only when the closed channel is empty
DrainedBeforeDone == queue = <<>>

\* the background task has drained the closed channel: it signals completion
Finish ==
    /\ cwState = "Stopping"
    /\ DrainedBeforeDone
    /\ cwState' = "Stopped"
    /\ UNCHANGED <<chClosed, queue, tickPending, ticks, flushable, sink,
                   flushCount, callerBuf, pcW, callOf, pcS, calls, accepted,
                   obs, panicked>>
    /\ UNCHANGED notCW

StopCloses_Always == TRUE

\* only the first Stop closes the channel
StopCloses == cwState = "Running"

\* Stop: the first call closes the channel; every call waits for the drain
Stop(s) ==
    /\ pcS[s] # "waiting"
    /\ IF StopCloses
       THEN /\ panicked' = (panicked \/ chClosed)
            /\ chClosed' = TRUE
            /\ cwState' = IF cwState = "Running" THEN "Stopping" ELSE cwState
            /\ obs' = IF chClosed THEN obs
                      ELSE [obs EXCEPT !.stopQueued = Len(queue),
                                       !.stopInFlight =
                                           {callOf[p] : p \in
                                               {q \in Producers :
                                                   pcW[q] = "writing"}}]
       ELSE UNCHANGED <<panicked, chClosed, cwState, obs>>
    /\ pcS' = [pcS EXCEPT ![s] = "waiting"]
    /\ UNCHANGED <<queue, tickPending, ticks, flushable, sink, flushCount,
                   callerBuf, pcW, callOf, calls, accepted>>

StopCall(s) == Stop(s) /\ UNCHANGED notCW

\* Stop waits for the completion signal of the background task
StopWaits == cwState = "Stopped"

\* Stop returns once the background task has signalled completion
StopReturn(s) ==
    /\ pcS[s] = "waiting"
    /\ StopWaits
    /\ pcS' = [pcS EXCEPT ![s] = "returned"]
    /\ UNCHANGED <<cwState, chClosed, queue, tickPending, ticks, flushable,
                   sink, flushCount, callerBuf, pcW, callOf, calls, accepted,
                   obs, panicked>>
    /\ UNCHANGED notCW

IsStopped == cwState = "Stopped"

\* NewChannelWriter(dest, QueueCap, interval): the writer runs, nothing queued;
\* hasFlush tells whether dest has a Flush method
NewChannelWriter(hasFlush) ==
    /\ cwState = "Running"
    /\ chClosed = FALSE
    /\ queue = <<>>
    /\ tickPending = FALSE
    /\ ticks = 0
    /\ flushable = hasFlush
    /\ sink = <<>>
    /\ flushCount = 0
    /\ callerBuf = [p \in Producers |-> <<>>]
    /\ pcW = [p \in Producers |-> "idle"]
    /\ callOf = [p \in Producers |-> 0]
    /\ pcS = [s \in Stoppers |-> "idle"]
    /\ calls = <<>>
    /\ accepted = <<>>
    /\ obs = ObsInit
    /\ panicked = FALSE

(***************************************************************************)
(* The registry and its handles                                            *)
(***************************************************************************)
(***************************************************************************)
(* The rotation wrapper (logrotate.go)                                     *)
(***************************************************************************)
\* the threads calling Close; Close calls the channel writer's Stop
Closers == Stoppers

\* the formatter Initialize installs: NewDefaultFormatter(l.destination())
RotFormatter == "Rot"

NoRot == [made |-> FALSE, oldFormatter |-> "nil", fileBuf |-> FALSE,
          buffered |-> FALSE, channel |-> FALSE, closed |-> FALSE]

\* no Initialize call yet
NoRotator ==
    /\ rot = NoRot
    /\ pcC = [c \in Closers |-> "idle"]
    /\ closeLog = <<>>
    /\ fileFlushes = 0
    /\ onDisk = 0

\* Initialize(folder, name, maxAge, maxSize, buffered, extraSink); extra:
\* extraSink is non-nil.  Without extraSink the file is behind a bufio.Writer,
\* which has a Flush method; the io.MultiWriter has none.
Initialize(buffered, extra) ==
    /\ ~rot.made
    /\ Idle
    /\ rot' = [made |-> TRUE, oldFormatter |-> formatter, fileBuf |-> ~extra,
               buffered |-> buffered, channel |-> buffered, closed |-> FALSE]
    /\ flushable' = (buffered /\ ~extra)
    /\ formatter' = RotFormatter
    /\ UNCHANGED <<repoMap, derived, onError, lastOp>>
    /\ UNCHANGED <<cwState, chClosed, queue, tickPending, ticks, sink,
                   flushCount, callerBuf, pcW, callOf, pcS, calls, accepted,
                   obs, panicked>>
    /\ UNCHANGED <<pcC, closeLog, fileFlushes, onDisk>>
    /\ UNCHANGED others

\* a log call while the wrapper's formatter is installed: under logger.mu the
\* formatter writes the line to the destination Initialize gave it, the
\* channel writer when buffered, the file writer itself when not
LogWrite(p) ==
    /\ rot.made
    /\ formatter = RotFormatter
    /\ ~RegistryBusy
    /\ IF rot.buffered
       THEN WriteBegin(p)
       ELSE /\ pcW[p] = "idle"
            /\ Len(calls) < MaxWrites
            /\ calls' = Append(calls, [by |-> p, data |-> MsgOf(Len(calls) + 1),
                                       late |-> FALSE, result |-> "ok"])
            /\ sink' = testWriterWrite([id |-> Len(calls) + 1, src |-> "",
                                        data |-> MsgOf(Len(calls) + 1)])
            /\ UNCHANGED <<cwState, chClosed, queue, tickPending, ticks,
                           flushable, flushCount, callerBuf, pcW, callOf, pcS,
                           accepted, obs, panicked>>
    /\ UNCHANGED regVars
    /\ UNCHANGED rotVars
    /\ UNCHANGED others

\* the lines the file holds: with a file buffer those it has flushed,
\* without one (io.MultiWriter) every write made
FileLines == IF rot.fileBuf THEN onDisk ELSE Len(sink)

CloseRejects_Never == FALSE

\* if c.closed
CloseRejects == rot.closed

\* Close, entry: a closed wrapper returns the "already closed" error
CloseCheck(c) ==
    /\ rot.made
    /\ pcC[c] = "idle"
    /\ Len(closeLog) < MaxCloses
    /\ IF CloseRejects
       THEN /\ closeLog' = Append(closeLog, "already closed")
            /\ UNCHANGED pcC
       ELSE /\ pcC' = [pcC EXCEPT ![c] = "set"]
            /\ UNCHANGED closeLog
    /\ UNCHANGED <<rot, fileFlushes, onDisk>>
    /\ UNCHANGED regVars
    /\ UNCHANGED cwVars
    /\ UNCHANGED others

\* a Close call made while no other Close call is running
CloseAlone(c) ==
    /\ \A d \in Closers : pcC[d] = "idle"
    /\ CloseCheck(c)

\* bufio.Writer.Flush: what was written to the buffer goes to the file
FlushedByClose == Len(sink)

\* c.closed = true, then the file buffer, if there is one, is flushed
CloseSet(c) ==
    /\ pcC[c] = "set"
    /\ rot' = [rot EXCEPT !.closed = TRUE]
    /\ fileFlushes' = IF rot.fileBuf THEN fileFlushes + 1 ELSE fileFlushes
    /\ onDisk' = IF rot.fileBuf THEN FlushedByClose ELSE onDisk
    /\ pcC' = [pcC EXCEPT ![c] = "restore"]
    /\ UNCHANGED closeLog
    /\ UNCHANGED regVars
    /\ UNCHANGED cwVars
    /\ UNCHANGED others

\* Close leaving no formatter behind
Restored_None == "nil"

\* the formatter Close puts back: c.oldFormatter
Restored == rot.oldFormatter

\* xlog.SetFormatter(c.oldFormatter), under logger.mu
CloseRestore(c) ==
    /\ pcC[c] = "restore"
    /\ ~RegistryBusy
    /\ formatter' = Restored
    /\ pcC' = [pcC EXCEPT ![c] = "stop"]
    /\ UNCHANGED <<repoMap, derived, onError, lastOp>>
    /\ UNCHANGED <<rot, closeLog, fileFlushes, onDisk>>
    /\ UNCHANGED cwVars
    /\ UNCHANGED others

\* if c.channel != nil { c.channel.Stop() ...: the call of Stop; without a
\* channel writer Close returns nil here
CloseStop(c) ==
    /\ pcC[c] = "stop"
    /\ IF rot.channel
       THEN /\ Stop(c)
            /\ pcC' = [pcC EXCEPT ![c] = "stopping"]
            /\ UNCHANGED closeLog
       ELSE /\ pcC' = [pcC EXCEPT ![c] = "idle"]
            /\ closeLog' = Append(closeLog, "nil")
            /\ UNCHANGED cwVars
    /\ UNCHANGED <<rot, fileFlushes, onDisk>>
    /\ UNCHANGED regVars
    /\ UNCHANGED others

\* Stop has returned: c.channel = nil; return nil
CloseReturn(c) ==
    /\ pcC[c] = "stopping"
    /\ pcS[c] = "waiting"
    /\ StopWaits
    /\ pcS' = [pcS EXCEPT ![c] = "returned"]
    /\ rot' = [rot EXCEPT !.channel = FALSE]
    /\ pcC' = [pcC EXCEPT ![c] = "idle"]
    /\ closeLog' = Append(closeLog, "nil")
    /\ UNCHANGED <<fileFlushes, onDisk>>
    /\ UNCHANGED regVars
    /\ UNCHANGED <<cwState, chClosed, queue, tickPending, ticks, flushable,
                   sink, flushCount, callerBuf, pcW, callOf, calls, accepted,
                   obs, panicked>>
    /\ UNCHANGED others

\* the wrappers a program makes, and the formatter Initialize installs for
\* each: NewDefaultFormatter over that wrapper's destination
Wrappers == {"w1", "w2", "w3"}

FormatterOf(w) == CASE w = "w1" -> "Rot1" [] w = "w2" -> "Rot2" [] w = "w3" -> "Rot3"

NoWrappers ==
    wraps = [w \in Wrappers |->
                [made |-> FALSE, oldFormatter |-> "nil", closed |-> FALSE]]

\* Initialize for wrapper w: oldFormatter: xlog.GetFormatter(), then
\* xlog.SetFormatter(xlog.NewDefaultFormatter(l.destination()))
InitializeWrapper(w) ==
    /\ ~wraps[w].made
    /\ wraps' = [wraps EXCEPT ![w] = [made |-> TRUE, oldFormatter |-> formatter,
                                      closed |-> FALSE]]
    /\ formatter' = FormatterOf(w)
    /\ UNCHANGED <<repoMap, derived, onError, lastOp>>
    /\ UNCHANGED <<cwVars, rotVars, thrVars, ctxVars>>

\* the first Close of wrapper w, no other call running: c.closed = true,
\* xlog.SetFormatter(c.oldFormatter), the channel stopped
CloseWrapper(w) ==
    /\ wraps[w].made
    /\ ~wraps[w].closed
    /\ wraps' = [wraps EXCEPT ![w].closed = TRUE]
    /\ formatter' = wraps[w].oldFormatter
    /\ UNCHANGED <<repoMap, derived, onError, lastOp>>
    /\ UNCHANGED <<cwVars, rotVars, thrVars, ctxVars>>

\* the program sets its formatter before it makes its first wrapper
SetFormatterFirst(f) ==
    /\ \A w \in Wrappers : ~wraps[w].made
    /\ SetFormatter(f)

InitReg ==
    /\ repoMap = EmptyMap
    /\ derived = <<>>
    /\ formatter = "nil"
    /\ onError = FALSE
    /\ lastOp = NoOp

(***************************************************************************)
(* context.go: the entries a context carries                               *)
(***************************************************************************)
\* the keys the model uses, in the order sort.Strings puts them
CtxKeys == <<"k1", "k2", "k3">>

\* a context without log entries: ctx.Value(keyContext) is nil
NoLogs == [made |-> FALSE, kvMap |-> EmptyMap, entries |-> <<>>]

NoContext ==
    /\ ctx = NoLogs
    /\ given = EmptyMap

\* The argument lists passed to ContextWithKV: the three pairs of
\* Test_ContextWithLog and its one more pair, pairs that are new, repeated,
\* out of order, with a nil and with an empty value, an odd count, a key that
\* is no string, first and after a good pair, and none.
CtxArgs ==
    {<<"k1", "int7", "k2", "int7", "k3", "v1">>, <<"k3", "v2">>,
     <<"k1", "v1">>, <<"k2", "v1">>, <<"k2", "v1", "k1", "v2">>,
     <<"k1", "v1", "k1", "int7">>, <<"k2", "">>, <<"k1", "nil">>,
     <<"k1">>, <<"int7", "v1">>, <<"k1", "v2", "int7", "v1">>, <<>>}

\* delete(m, k) and m[k] = v
Delete(m, k) == [x \in DOMAIN m \ {k} |-> m[x]]

Store(m, k, v) == [x \in DOMAIN m \cup {k} |-> IF x = k THEN v ELSE m[x]]

\* what the loop does with a nil or empty-string value
Skip(m, k) == Delete(m, k)

\* the loop over the pairs, from position i: the map it leaves, and whether
\* it panicked on a key that is no string
RECURSIVE pairsFrom(_, _, _)
pairsFrom(m, entries, i) ==
    IF i > Len(entries) THEN [panic |-> FALSE, kvMap |-> m]
    ELSE IF entries[i] \notin Strings THEN [panic |-> TRUE, kvMap |-> m]
    ELSE IF entries[i + 1] = "nil" \/ entries[i + 1] = ""
    THEN pairsFrom(Skip(m, entries[i]), entries, i + 2)
    ELSE pairsFrom(Store(m, entries[i], entries[i + 1]), entries, i + 2)

\* sort.Strings over the keys S
sortStrings(S) == SelectSeq(CtxKeys, LAMBDA k : k \in S)

\* the entries slice built from the sorted keys
RECURSIVE buildEntries(_, _)
buildEntries(m, keys) ==
    IF keys = <<>> THEN <<>>
    ELSE <<Head(keys), m[Head(keys)]>> \o buildEntries(m, Tail(keys))

\* ContextWithKV on a context whose contextLogs is c (NoLogs: it has none).
\* A panic in the loop leaves the map of an existing contextLogs as far as
\* the loop got, and its entries slice as it was.
ContextWithKVResult(c, entries) ==
    IF Len(entries) % 2 # 0 THEN [panic |-> TRUE, logs |-> c]
    ELSE LET r == pairsFrom(c.kvMap, entries, 1)
         IN  IF r.panic
             THEN [panic |-> TRUE,
                   logs |-> IF c.made THEN [c EXCEPT !.kvMap = r.kvMap] ELSE c]
             ELSE [panic |-> FALSE,
                   logs |-> [made |-> TRUE, kvMap |-> r.kvMap,
                             entries |-> buildEntries(r.kvMap,
                                                      sortStrings(DOMAIN r.kvMap))]]

ContextEntries(c) == IF c.made THEN c.entries ELSE <<>>

\* the values a call's pairs give their keys, later pairs over earlier ones
RECURSIVE Supplied(_, _, _)
Supplied(g, entries, i) ==
    IF i + 1 > Len(entries) THEN g
    ELSE Supplied(Store(g, entries[i], entries[i + 1]), entries, i + 2)

\* ContextWithKV(from, entries...): from is context.Background() or the
\* context in use.  A call on Background that returns starts a new context,
\* which is the one in use from then on.
ContextWithKV(from, entries) ==
    /\ Idle
    /\ from = "ctx" => ctx.made
    /\ LET c == IF from = "ctx" THEN ctx ELSE NoLogs
           r == ContextWithKVResult(c, entries)
       IN  /\ ctx' = IF from = "background" /\ r.panic THEN ctx ELSE r.logs
           /\ given' = IF r.panic THEN given
                       ELSE Supplied(IF from = "ctx" THEN given ELSE EmptyMap,
                                     entries, 1)
           /\ lastOp' = [op |-> "ContextWithKV", from |-> from,
                         entries |-> entries, panic |-> r.panic,
                         before |-> ContextEntries(c),
                         same |-> (from = "ctx")]
    /\ UNCHANGED <<repoMap, derived, formatter, onError>>
    /\ UNCHANGED <<cwVars, rotVars, thrVars, wrapVars>>

\* ContextKV on handle h with the context in use
ContextKVCall(h, l, entries) ==
    /\ Live(h)
    /\ LogCall(h, "ContextKV", l, ContextEntries(ctx), entries)

\* the threads of the registry's callers
Threads == {"t1", "t2"}

\* a thread outside every call; lvl is the level a WithValues call or the
\* gate of a log call has read, fmt the formatter a log call has found set,
\* out the formatter it has handed the entry to
NoCall == [call |-> [op |-> "none"], pc |-> "idle", lvl |-> INFO,
           fmt |-> "nil", out |-> "nil"]

\* no thread is inside a call, the mutex is free
NoThreads ==
    /\ mu = "none"
    /\ thr = [t \in Threads |-> NoCall]

(***************************************************************************)
(* The registry called from several threads                                *)
(***************************************************************************)
\* The calls the threads make.  Every function but WithValues starts with
\* logger.Lock() and ends, by defer, with logger.Unlock(); what it does in
\* between is one step of the thread that holds the mutex.  WithValues takes
\* no lock: its read of p.level and its append to p.values are steps of
\* their own.
ThreadCalls ==
    {[op |-> "NewPackageLogger", repo |-> "r1", pkg |-> "a"]}
        \cup {[op |-> "WithValues", h |-> h, kv |-> LogInput] :
                 h \in {RegRef("r1", "a"), DerRef(1)}}
        \cup {[op |-> "SetPackageLogLevel", repo |-> "r1", pkg |-> "a",
               level |-> l] : l \in SetLevels}
        \cup {[op |-> "SetGlobalLogLevel", level |-> l] : l \in SetLevels}
        \cup {[op |-> "SetFormatter", f |-> f] : f \in {"nil", "F1"}}
        \cup {[op |-> "KV", h |-> h, level |-> INFO, entries |-> LogInput] :
                 h \in {RegRef("r1", "a"), DerRef(1)}}
        \cup {[op |-> "LevelAt", h |-> RegRef("r1", "a"), level |-> INFO]}

OnHandle(c) == c.op \in {"WithValues", "KV", "LevelAt", "Log"}

\* the calls followed statement by statement: KV on a handle without values
Stepwise(c) == c.op = "Log"

InWithValues == {t \in Threads : thr[t].call.op = "WithValues"}

\* the registry rm after NewPackageLogger(repo, pkg)
NewPackageLoggerMap(rm, repo, pkg) ==
    IF repo \in DOMAIN rm /\ pkg \in DOMAIN rm[repo] THEN rm
    ELSE LET r == IF repo \in DOMAIN rm THEN rm[repo] ELSE EmptyMap
             p == [pkg |-> pkg, level |-> INFO, values |-> <<>>]
         IN  (repo :> ((pkg :> p) @@ r)) @@ rm

\* thread t enters call c
TCall(t, c) ==
    /\ Idle
    /\ thr[t] = NoCall
    /\ OnHandle(c) => Live(c.h)
    /\ c.op = "WithValues" => Len(derived) + Cardinality(InWithValues) < MaxDerived
    /\ thr' = [thr EXCEPT ![t] = [call |-> c,
                                  pc |-> IF c.op = "WithValues" THEN "level"
                                         ELSE "lock",
                                  lvl |-> INFO, fmt |-> "nil",
                                  out |-> "nil"]]
    /\ UNCHANGED <<mu, regVars, cwVars, rotVars, ctxVars, wrapVars>>

MutexFree_Reentrant(t) == mu \in {"none", t}

\* sync.Mutex: Lock returns only when no thread holds the mutex, the caller
\* included
MutexFree(t) == mu = "none"

\* internalLog, packagelogger.go:56: the call is at ERROR and a hook is set
HookDue(t) ==
    /\ thr[t].call.op = "KV"
    /\ thr[t].call.level = ERROR
    /\ onError

\* logger.Lock(), by a call of the thread ("lock") or by a call the onError
\* callback makes on the thread that runs it ("relock")
TLock(t) ==
    /\ thr[t].pc \in {"lock", "relock"}
    /\ MutexFree(t)
    /\ mu' = t
    /\ thr' = [thr EXCEPT ![t].pc = IF thr[t].pc = "lock" THEN "held"
                                    ELSE "reentered"]
    /\ UNCHANGED <<regVars, cwVars, rotVars, ctxVars, wrapVars>>

\* internalLog, packagelogger.go:56-58: logger.onError(p.pkg), called by the
\* logging thread between logger.Lock() and the deferred Unlock.  What the
\* callback does is its author's code: it returns, or it calls a Logger
\* handle or the registry, which starts with logger.Lock()
THook(t, reenters) ==
    /\ thr[t].pc = "held"
    /\ mu = t
    /\ HookDue(t)
    /\ thr' = [thr EXCEPT ![t].pc = IF reenters THEN "relock" ELSE "gate"]
    /\ UNCHANGED <<mu, regVars, cwVars, rotVars, ctxVars, wrapVars>>

\* the body of a locked function, and the deferred logger.Unlock()
THeld(t) ==
    /\ \/ thr[t].pc = "held" /\ ~HookDue(t)
       \/ thr[t].pc = "gate"
    /\ ~Stepwise(thr[t].call)
    /\ mu = t
    /\ LET c == thr[t].call
       IN  /\ repoMap' =
                CASE c.op = "NewPackageLogger" ->
                        NewPackageLoggerMap(repoMap, c.repo, c.pkg)
                  [] c.op = "SetPackageLogLevel" ->
                        SetPackageLogLevelMap(repoMap, c.repo, c.pkg, c.level)
                  [] c.op = "SetGlobalLogLevel" ->
                        SetGlobalLogLevelMap(repoMap, c.level)
                  [] OTHER -> repoMap
           /\ formatter' = IF c.op = "SetFormatter" THEN c.f ELSE formatter
           /\ onError' = IF c.op = "OnError" THEN c.fn ELSE onError
           /\ derived' = IF c.op = "KV"
                         THEN AfterAppend(Obj(c.h),
                                          LogAppends(Obj(c.h), "KV", c.level,
                                                     <<>>, c.entries))
                         ELSE derived
    /\ mu' = "none"
    /\ thr' = [thr EXCEPT ![t] = NoCall]
    /\ UNCHANGED <<lastOp, cwVars, rotVars, ctxVars, wrapVars>>

KeptAfterGate_Released(t) == "none"

\* the mutex after the level check: still held, Unlock is deferred
KeptAfterGate(t) == t

\* internalLog, packagelogger.go:60-66: the level check and the nil check of
\* the formatter.  A filtered entry, or one with no formatter set, ends the
\* call: the deferred Unlock runs
TGate(t) ==
    /\ thr[t].pc = "held"
    /\ mu = t
    /\ Stepwise(thr[t].call)
    /\ LET c == thr[t].call
       IN  IF Filtered(Obj(c.h).level, c.level) \/ formatter = "nil"
           THEN /\ thr' = [thr EXCEPT ![t] = NoCall]
                /\ mu' = "none"
           ELSE /\ thr' = [thr EXCEPT ![t].pc = "emit",
                                      ![t].lvl = Obj(c.h).level,
                                      ![t].fmt = formatter]
                /\ mu' = KeptAfterGate(t)
    /\ UNCHANGED <<regVars, cwVars, rotVars, ctxVars, wrapVars>>

\* internalLog, packagelogger.go:67-71: logger.formatter.FormatKV(...), the
\* formatter read again for the call; FormatKV starts with flatten, which
\* panics on a key that is no string
TEmit(t) ==
    /\ thr[t].pc = "emit"
    /\ mu = t
    /\ thr' = IF flatten(FALSE, thr[t].call.entries).panic
              THEN [thr EXCEPT ![t].pc = "panicking"]
              ELSE [thr EXCEPT ![t].pc = "unlock", ![t].out = formatter]
    /\ UNCHANGED <<mu, regVars, cwVars, rotVars, ctxVars, wrapVars>>

\* internalLog, packagelogger.go:56-58: the onError callback panics
THookPanics(t) ==
    /\ thr[t].pc = "held"
    /\ mu = t
    /\ HookDue(t)
    /\ thr' = [thr EXCEPT ![t].pc = "panicking"]
    /\ UNCHANGED <<mu, regVars, cwVars, rotVars, ctxVars, wrapVars>>

AfterPanic_StillLocked(t) == t

\* the mutex after a panic has left internalLog: deferred calls run while
\* the panic unwinds
AfterPanic(t) == "none"

\* the deferred logger.Unlock() of a call that emitted, or of one that
\* panics; the caller of the latter recovers and goes on
TUnlock(t) ==
    /\ thr[t].pc \in {"unlock", "panicking"}
    /\ mu = t
    /\ mu' = IF thr[t].pc = "panicking" THEN AfterPanic(t) ELSE "none"
    /\ thr' = [thr EXCEPT ![t] = NoCall]
    /\ UNCHANGED <<regVars, cwVars, rotVars, ctxVars, wrapVars>>

\* WithValues, packagelogger.go:47: level: p.level
WVReadLevel(t) ==
    /\ thr[t].pc = "level"
    /\ thr' = [thr EXCEPT ![t].lvl = Obj(thr[t].call.h).level,
                          ![t].pc = "values"]
    /\ UNCHANGED <<mu, regVars, cwVars, rotVars, ctxVars, wrapVars>>

\* WithValues, packagelogger.go:48: values: append(p.values, kv...), and the
\* return of the new object
WVAppend(t) ==
    /\ thr[t].pc = "values"
    /\ LET c == thr[t].call
           sl == AppendResult(Obj(c.h), c.kv, Len(derived) + 1)
       IN  derived' = Append(AfterAppend(Obj(c.h), c.kv),
                             [pkg |-> Obj(c.h).pkg, level |-> thr[t].lvl,
                              values |-> sl.values, arr |-> sl.arr,
                              cap |-> sl.cap, made |-> sl.values])
    /\ thr' = [thr EXCEPT ![t] = NoCall]
    /\ UNCHANGED <<mu, repoMap, formatter, onError, lastOp, cwVars, rotVars, ctxVars, wrapVars>>

\* The memory the next step of thread t reads or writes: the level field of
\* an object, the array behind a values slice, the formatter reference, the
\* repository map.
LevelOf(h) == <<"level", h>>

ArrayOf(p) == <<"array", Arr(p)>>

RegisteredRefs ==
    {RegRef(repo, pkg) : repo \in DOMAIN repoMap, pkg \in Pkgs} \cap
        {h \in HandleRefs : Live(h)}

Access(t) ==
    LET c == thr[t].call
    IN  CASE thr[t].pc = "level" -> {[loc |-> LevelOf(c.h), write |-> FALSE]}
          [] thr[t].pc = "values" ->
                IF FitsInPlace(Obj(c.h), c.kv)
                THEN {[loc |-> ArrayOf(Obj(c.h)), write |-> TRUE]}
                ELSE {[loc |-> ArrayOf(Obj(c.h)), write |-> FALSE]}
          [] thr[t].pc = "held" ->
                CASE c.op = "NewPackageLogger" ->
                        {[loc |-> <<"repoMap">>, write |-> TRUE]}
                  [] c.op = "SetPackageLogLevel" ->
                        {[loc |-> <<"repoMap">>, write |-> FALSE]} \cup
                        (IF RegisteredPkg(c.repo, c.pkg)
                         THEN {[loc |-> LevelOf(RegRef(c.repo, c.pkg)),
                                write |-> TRUE]}
                         ELSE {})
                  [] c.op = "SetGlobalLogLevel" ->
                        {[loc |-> <<"repoMap">>, write |-> FALSE]} \cup
                        {[loc |-> LevelOf(h), write |-> TRUE] :
                            h \in RegisteredRefs}
                  [] c.op = "SetFormatter" ->
                        {[loc |-> <<"formatter">>, write |-> TRUE]}
                  [] c.op = "KV" ->
                        {[loc |-> LevelOf(c.h), write |-> FALSE],
                         [loc |-> <<"formatter">>, write |-> FALSE],
                         [loc |-> ArrayOf(Obj(c.h)),
                          write |-> FitsInPlace(Obj(c.h),
                                                LogAppends(Obj(c.h), "KV",
                                                           c.level, <<>>,
                                                           c.entries))]}
                  [] OTHER -> {[loc |-> LevelOf(c.h), write |-> FALSE]}
          [] OTHER -> {}

\* two threads are about to touch the same memory, one of them writing, and
\* they do not both hold the mutex (which only one thread can)
DataRace(t1, t2) ==
    /\ t1 # t2
    /\ \E a1 \in Access(t1), a2 \in Access(t2) :
          /\ a1.loc = a2.loc
          /\ a1.write \/ a2.write
    /\ ~(mu = t1 /\ mu = t2)

\* The caller takes the result of its call; the next call starts after that.
Return ==
    /\ lastOp # NoOp
    /\ lastOp' = NoOp
    /\ UNCHANGED <<repoMap, derived, formatter, onError>>
    /\ UNCHANGED notReg

(***************************************************************************)
(* Specifications                                                          *)
(***************************************************************************)
\* The level gate: the handles of one package, every level, every log call.
\* WithValues while fewer than MaxDerived handles were made
GateWithValues(h, kv) == Len(derived) < MaxDerived /\ WithValues(h, kv)

InitGate == InitReg /\ NewChannelWriter(FALSE) /\ NoRotator /\ NoThreads /\ NoContext
    /\ NoWrappers

NextGate ==
    \/ NewPackageLogger("r1", "a")
    \/ \E l \in Levels : SetGlobalLogLevel(l)
    \/ \E f \in {"nil", "F1"} : SetFormatter(f)
    \/ \E fn \in BOOLEAN : OnError(fn)
    \/ \E h \in HandleRefs, kv \in KVInputs : GateWithValues(h, kv)
    \/ \E h \in HandleRefs, k \in Kinds, l \in Levels :
          LogCall(h, k, l, IF k = "ContextKV" THEN CtxInput ELSE <<>>, LogInput)
    \/ \E h \in HandleRefs, l \in Levels : LevelAtCall(h, l)
    \/ Return

SpecGate == InitGate /\ [][NextGate]_vars

\* WithValues on the handles of one package and on the handles it returned,
\* and KV calls on them.
ChainRefs == {RegRef("r1", "a")} \cup {DerRef(i) : i \in 1..MaxChain}

InitValues == InitReg /\ NewChannelWriter(FALSE) /\ NoRotator /\ NoThreads /\ NoContext
    /\ NoWrappers

NextValues ==
    \/ NewPackageLogger("r1", "a")
    \/ \E h \in ChainRefs, kv \in ValueInputs : WithValues(h, kv)
    \/ \E h \in ChainRefs : LogCall(h, "KV", INFO, <<>>, LogInput)
    \/ Return

SpecValues == InitValues /\ [][NextValues]_vars

\* KV and ContextKV with every kind of argument list, on the handle of one
\* package, with and without a formatter.
InitKV == InitReg /\ NewChannelWriter(FALSE) /\ NoRotator /\ NoThreads /\ NoContext
    /\ NoWrappers

NextKV ==
    \/ NewPackageLogger("r1", "a")
    \/ \E l \in SetLevels : SetGlobalLogLevel(l)
    \/ \E f \in {"nil", "F1"} : SetFormatter(f)
    \/ \E k \in {"KV", "ContextKV"}, l \in {ERROR, INFO, DEBUG}, es \in KVArgs,
          extra \in {<<>>, CtxInput} :
          LogCall(RegRef("r1", "a"), k, l, extra, es)
    \/ Return

SpecKV == InitKV /\ [][NextKV]_vars

\* The level setters over the packages of two repositories.
InitLevels == InitReg /\ NewChannelWriter(FALSE) /\ NoRotator /\ NoThreads /\ NoContext
    /\ NoWrappers

NextLevels ==
    \/ \E repo \in Repos, pkg \in Pkgs : NewPackageLogger(repo, pkg)
    \/ \E l \in SetLevels : SetGlobalLogLevel(l)
    \/ \E repo \in Repos, l \in SetLevels : RepoSetRepoLogLevel(repo, l)
    \/ \E repo \in Repos, m \in LevelMaps : SetLogLevel(repo, m)
    \/ Return

SpecLevels == InitLevels /\ [][NextLevels]_vars

\* The setters and the lookup that take names, over the packages a and b of
\* repository r1 and package a of r2.
InitNames == InitReg /\ NewChannelWriter(FALSE) /\ NoRotator /\ NoThreads /\ NoContext
    /\ NoWrappers

NextNames ==
    \/ \E pr \in {<<"r1", "a">>, <<"r1", "b">>, <<"r2", "a">>} :
          NewPackageLogger(pr[1], pr[2])
    \/ \E repo \in NameRepos \ {"*"}, l \in SetLevels : SetRepoLogLevel(repo, l)
    \/ \E repo \in NameRepos \ {"*"}, pkg \in NamePkgs \cup {"*"}, l \in SetLevels :
          SetPackageLogLevel(repo, pkg, l)
    \/ \E repo \in NameRepos \ {"*"}, m \in LevelMaps :
          SetLogLevel(repo, m)
    \/ \E cfgs \in CfgLists : SetRepoLevels(cfgs)
    \/ \E repo \in NameRepos \ {"*"} : GetRepoLoggerCall(repo)
    \/ Return

SpecNames == InitNames /\ [][NextNames]_vars

\* ParseLevel on every kind of string, on its own, after String and Char, and
\* inside SetRepoLevels on a registered package.
InitParse == InitReg /\ NewChannelWriter(FALSE) /\ NoRotator /\ NoThreads /\ NoContext
    /\ NoWrappers

NextParse ==
    \/ NewPackageLogger("r1", "a")
    \/ \E str \in ParseInputs : ParseLevelCall(str)
    \/ \E l \in Levels, via \in {"String", "Char"} : RoundTrip(l, via)
    \/ \E str \in ParseInputs :
          SetRepoLevels(<<[Repo |-> "r1", Package |-> "a", Level |-> str]>>)
    \/ Return

SpecParse == InitParse /\ [][NextParse]_vars

\* Fatal, Fatalf, Panic and Panicf on the handle of a package and on a
\* handle WithValues made, at every level and with and without a formatter.
InitFatal == InitReg /\ NewChannelWriter(FALSE) /\ NoRotator /\ NoThreads /\ NoContext
    /\ NoWrappers

NextFatal ==
    \/ NewPackageLogger("r1", "a")
    \/ \E h \in HandleRefs, kv \in KVInputs : GateWithValues(h, kv)
    \/ \E l \in Levels : SetGlobalLogLevel(l)
    \/ \E f \in Formatters : SetFormatter(f)
    \/ \E h \in HandleRefs, kind \in FatalKinds : FatalCall(h, kind)
    \/ Return

SpecFatal == InitFatal /\ [][NextFatal]_vars

\* ContextWithKV on a context and on Background, and ContextKV with the
\* context.
InitCtx == InitReg /\ NewChannelWriter(FALSE) /\ NoRotator /\ NoThreads /\ NoContext
    /\ NoWrappers

NextCtx ==
    \/ \E from \in {"background", "ctx"}, es \in CtxArgs : ContextWithKV(from, es)
    \/ NewPackageLogger("r1", "a")
    \/ \E f \in {"F1"} : SetFormatter(f)
    \/ \E h \in HandleRefs, kv \in {<<"k3", "v2">>} : GateWithValues(h, kv)
    \/ \E h \in HandleRefs, l \in {INFO, DEBUG}, es \in {LogInput, <<>>} :
          ContextKVCall(h, l, es)
    \/ \E h \in HandleRefs, l \in {INFO, DEBUG}, es \in {LogInput, <<>>} :
          LogCall(h, "KV", l, <<>>, es)
    \/ Return

SpecCtx == InitCtx /\ [][NextCtx]_vars

\* Close called on one wrapper by two threads at any time, also while the
\* other's call is running.
InitCloseRace == InitReg /\ NewChannelWriter(FALSE) /\ NoRotator /\ NoThreads /\ NoContext
    /\ NoWrappers

NextCloseRace ==
    \/ \E buffered \in BOOLEAN, extra \in BOOLEAN : Initialize(buffered, extra)
    \/ \E p \in Producers : LogWrite(p)
    \/ \E p \in Producers : WriteEnqueue(p)
    \/ Deliver
    \/ Finish
    \/ \E c \in Closers : CloseCheck(c)
    \/ \E c \in Closers : CloseSet(c)
    \/ \E c \in Closers : CloseRestore(c)
    \/ \E c \in Closers : CloseStop(c)
    \/ \E c \in Closers : CloseReturn(c)

SpecCloseRace == InitCloseRace /\ [][NextCloseRace]_vars

\* A program that logs through the rotation wrapper and then closes it: no
\* log call is made or still running once Close has been called.
NoCloseYet == closeLog = <<>> /\ \A c \in Closers : pcC[c] = "idle"

LogBeforeClose(p) == NoCloseYet /\ LogWrite(p)

CloseAfterLogs(c) == (\A p \in Producers : pcW[p] = "idle") /\ CloseAlone(c)

\* other code sets the formatter, before Initialize or while the wrapper is
\* in use
SetFormatterBeforeClose(f) == NoCloseYet /\ SetFormatter(f)

InitClose == InitReg /\ NewChannelWriter(FALSE) /\ NoRotator /\ NoThreads /\ NoContext
    /\ NoWrappers

NextClose ==
    \/ \E buffered \in BOOLEAN, extra \in BOOLEAN : Initialize(buffered, extra)
    \/ \E f \in {"F1", "F2"} : SetFormatterBeforeClose(f)
    \/ Return
    \/ \E p \in Producers : LogBeforeClose(p)
    \/ \E p \in Producers : WriteEnqueue(p)
    \/ Deliver
    \/ Finish
    \/ \E c \in Closers : CloseAfterLogs(c)
    \/ \E c \in Closers : CloseSet(c)
    \/ \E c \in Closers : CloseRestore(c)
    \/ \E c \in Closers : CloseStop(c)
    \/ \E c \in Closers : CloseReturn(c)

SpecClose == InitClose /\ [][NextClose]_vars

\* Two threads calling the registry at the same time.
InitThreads == InitReg /\ NewChannelWriter(FALSE) /\ NoRotator /\ NoThreads /\ NoContext
    /\ NoWrappers

NextThreads ==
    \/ \E t \in Threads, c \in ThreadCalls : TCall(t, c)
    \/ \E t \in Threads : TLock(t)
    \/ \E t \in Threads : THeld(t)
    \/ \E t \in Threads : WVReadLevel(t)
    \/ \E t \in Threads : WVAppend(t)

SpecThreads == InitThreads /\ [][NextThreads]_vars

\* The levels of the packages of two repositories, one of them registered
\* under the empty name, read with GetRepoLevels and set again.
InitSnapshot == InitReg /\ NewChannelWriter(FALSE) /\ NoRotator /\ NoThreads /\ NoContext
    /\ NoWrappers

NextSnapshot ==
    \/ \E repo \in Repos, pkg \in {"", "a"} : NewPackageLogger(repo, pkg)
    \/ \E repo \in Repos, pkg \in {"", "a"}, l \in {CRITICAL, DEBUG} :
          SetPackageLogLevel(repo, pkg, l)
    \/ SnapshotRoundTrip
    \/ Return

SpecSnapshot == InitSnapshot /\ [][NextSnapshot]_vars

\* Every operation of a handle, with a formatter set and with none: none set
\* yet, set to nil, or put back as nil by the Close of a rotation wrapper.
InitNoFormatter == InitReg /\ NewChannelWriter(FALSE) /\ NoRotator /\ NoThreads /\ NoContext
    /\ NoWrappers

NextNoFormatter ==
    \/ NewPackageLogger("r1", "a")
    \/ \E f \in {"nil", "F1"} : SetFormatter(f)
    \/ \E l \in SetLevels : SetGlobalLogLevel(l)
    \/ \E h \in HandleRefs, kv \in KVInputs : GateWithValues(h, kv)
    \/ \E h \in HandleRefs, k \in Kinds, l \in Levels, es \in KVInputs :
          LogCall(h, k, l, IF k = "ContextKV" THEN CtxInput ELSE <<>>, es)
    \/ \E h \in HandleRefs : FlushCall(h)
    \/ InitializeWrapper("w1")
    \/ CloseWrapper("w1")
    \/ Return

SpecNoFormatter == InitNoFormatter /\ [][NextNoFormatter]_vars

\* Several rotation wrappers, made and closed in any order.
InitWrappers == InitReg /\ NewChannelWriter(FALSE) /\ NoRotator /\ NoThreads /\ NoContext
    /\ NoWrappers

NextWrappers ==
    \/ \E f \in {"F1", "F2"} : SetFormatterFirst(f)
    \/ Return
    \/ \E w \in Wrappers : InitializeWrapper(w)
    \/ \E w \in Wrappers : CloseWrapper(w)

SpecWrappers == InitWrappers /\ [][NextWrappers]_vars

\* Two threads that log on the handle of a package, change its level and
\* swap the formatter.
AtomicCalls ==
    {[op |-> "NewPackageLogger", repo |-> "r1", pkg |-> "a"]}
        \cup {[op |-> "Log", h |-> RegRef("r1", "a"), level |-> l,
               entries |-> LogInput] : l \in {CRITICAL, INFO, DEBUG}}
        \cup {[op |-> "SetGlobalLogLevel", level |-> l] : l \in {ERROR, DEBUG}}
        \cup {[op |-> "SetPackageLogLevel", repo |-> "r1", pkg |-> "a",
               level |-> l] : l \in {INFO}}
        \cup {[op |-> "SetFormatter", f |-> f] : f \in Formatters}

InitAtomic == InitReg /\ NewChannelWriter(FALSE) /\ NoRotator /\ NoThreads /\ NoContext
    /\ NoWrappers

NextAtomic ==
    \/ \E t \in Threads, c \in AtomicCalls : TCall(t, c)
    \/ \E t \in Threads : TLock(t)
    \/ \E t \in Threads : THeld(t)
    \/ \E t \in Threads : TGate(t)
    \/ \E t \in Threads : TEmit(t)
    \/ \E t \in Threads : TUnlock(t)

SpecAtomic == InitAtomic /\ [][NextAtomic]_vars

\* Two threads whose log calls may panic, in the formatter on a key that is
\* no string or in the onError callback, and that go on calling the registry.
\* The runtime runs every thread that can take a step, and hands the mutex
\* to a thread that keeps waiting for it (sync.Mutex starvation mode).
PanicCalls ==
    {[op |-> "NewPackageLogger", repo |-> "r1", pkg |-> "a"]}
        \cup {[op |-> "Log", h |-> RegRef("r1", "a"), level |-> INFO,
               entries |-> es] : es \in {LogInput, <<"int7", "v1">>}}
        \cup {[op |-> "KV", h |-> RegRef("r1", "a"), level |-> ERROR,
               entries |-> LogInput]}
        \cup {[op |-> "OnError", fn |-> fn] : fn \in BOOLEAN}
        \cup {[op |-> "SetGlobalLogLevel", level |-> l] : l \in {ERROR, INFO}}
        \cup {[op |-> "SetFormatter", f |-> f] : f \in {"nil", "F1"}}

InitPanic == InitReg /\ NewChannelWriter(FALSE) /\ NoRotator /\ NoThreads /\ NoContext
    /\ NoWrappers

\* the onError callback returns
THookReturns(t) == thr[t].pc = "held" /\ THook(t, FALSE)

NextPanic ==
    \/ \E t \in Threads, c \in PanicCalls : TCall(t, c)
    \/ \E t \in Threads : TLock(t)
    \/ \E t \in Threads : THeld(t)
    \/ \E t \in Threads : THookReturns(t)
    \/ \E t \in Threads : THookPanics(t)
    \/ \E t \in Threads : TGate(t)
    \/ \E t \in Threads : TEmit(t)
    \/ \E t \in Threads : TUnlock(t)

SpecPanic ==
    /\ InitPanic
    /\ [][NextPanic]_vars
    /\ \A t \in Threads :
          /\ SF_vars(TLock(t))
          /\ WF_vars(THeld(t))
          /\ WF_vars(THookReturns(t) \/ THookPanics(t))
          /\ WF_vars(TGate(t))
          /\ WF_vars(TEmit(t))
          /\ WF_vars(TUnlock(t))

\* Two threads that log and call the registry while an onError callback may
\* be set.
HookCalls ==
    {[op |-> "NewPackageLogger", repo |-> "r1", pkg |-> "a"]}
        \cup {[op |-> "OnError", fn |-> fn] : fn \in BOOLEAN}
        \cup {[op |-> "KV", h |-> RegRef("r1", "a"), level |-> l,
               entries |-> LogInput] : l \in {ERROR, INFO}}
        \cup {[op |-> "SetGlobalLogLevel", level |-> l] : l \in {CRITICAL, INFO}}
        \cup {[op |-> "SetFormatter", f |-> f] : f \in {"nil", "F1"}}
        \cup {[op |-> "LevelAt", h |-> RegRef("r1", "a"), level |-> INFO]}

InitHook == InitReg /\ NewChannelWriter(FALSE) /\ NoRotator /\ NoThreads /\ NoContext
    /\ NoWrappers

NextHook ==
    \/ \E t \in Threads, c \in HookCalls : TCall(t, c)
    \/ \E t \in Threads : TLock(t)
    \/ \E t \in Threads, reenters \in BOOLEAN : THook(t, reenters)
    \/ \E t \in Threads : THeld(t)

SpecHook == InitHook /\ [][NextHook]_vars

\* The channel writer with two producers and two threads calling Stop; the
\* destination has no Flush method and the ticker is left out.
InitCW == InitReg /\ NewChannelWriter(FALSE) /\ NoRotator /\ NoThreads /\ NoContext
    /\ NoWrappers

NextCW ==
    \/ \E p \in Producers : WriteCall(p)
    \/ \E p \in Producers : WriteEnqueue(p)
    \/ \E p \in Producers : WriteReject(p)
    \/ \E p \in Producers : Mutate(p)
    \/ Deliver
    \/ Finish
    \/ \E s \in Stoppers : StopCall(s)
    \/ \E s \in Stoppers : StopReturn(s)

SpecCW == InitCW /\ [][NextCW]_vars

\* Write and Stop racing, without the callers' later use of their buffers,
\* under the scheduling Go gives: the background task and every thread
\* inside Write or Stop take their next step when they can.
NextRace ==
    \/ \E p \in Producers : WriteCall(p)
    \/ \E p \in Producers : WriteEnqueue(p)
    \/ \E p \in Producers : WriteReject(p)
    \/ Deliver
    \/ Finish
    \/ \E s \in Stoppers : StopCall(s)
    \/ \E s \in Stoppers : StopReturn(s)

SpecCWFair ==
    /\ InitCW
    /\ [][NextRace]_vars
    /\ WF_vars(Deliver)
    /\ WF_vars(Finish)
    /\ \A p \in Producers : WF_vars(WriteEnqueue(p)) /\ WF_vars(WriteReject(p))
    /\ \A s \in Stoppers : WF_vars(StopReturn(s))

\* Two producers and one thread calling Stop, on a destination whose Write
\* may return an error for any buffer; the background task takes its next
\* step whatever the destination answers.
NextSinkErr ==
    \/ \E p \in Producers : WriteCall(p)
    \/ \E p \in Producers : WriteEnqueue(p)
    \/ \E p \in Producers : WriteReject(p)
    \/ Deliver
    \/ DeliverError
    \/ Finish
    \/ StopCall("s1")
    \/ StopReturn("s1")

SpecSinkErr ==
    /\ InitCW
    /\ [][NextSinkErr]_vars
    /\ WF_vars(Deliver \/ DeliverError)
    /\ WF_vars(Finish)
    /\ \A p \in Producers : WF_vars(WriteEnqueue(p)) /\ WF_vars(WriteReject(p))
    /\ WF_vars(StopReturn("s1"))

\* The flush ticker, with a destination that has a Flush method or has none,
\* one producer and one thread calling Stop.
InitFlush ==
    /\ InitReg /\ (\E hasFlush \in BOOLEAN : NewChannelWriter(hasFlush))
    /\ NoRotator /\ NoThreads /\ NoContext
    /\ NoWrappers

NextFlush ==
    \/ TickFire
    \/ HandleTick
    \/ WriteCall("p1")
    \/ WriteEnqueue("p1")
    \/ WriteReject("p1")
    \/ Deliver
    \/ Finish
    \/ StopCall("s1")
    \/ StopReturn("s1")

SpecFlush == InitFlush /\ [][NextFlush]_vars

\* The same with the background task taking every tick it is offered.
SpecFlushFair ==
    /\ SpecFlush
    /\ WF_vars(HandleTick)
    /\ WF_vars(Deliver)

\* The rotation wrapper: one Initialize, log calls through the formatter it
\* installs, SetFormatter calls of other code, and Close calls made one
\* after the other.  A log call holds logger.mu while it is inside Write, so
\* no Write is in flight when Close calls Stop.
InitRot == InitReg /\ NewChannelWriter(FALSE) /\ NoRotator /\ NoThreads /\ NoContext
    /\ NoWrappers

NextRot ==
    \/ \E buffered \in BOOLEAN, extra \in BOOLEAN : Initialize(buffered, extra)
    \/ \E f \in {"F1", "F2"} : SetFormatter(f)
    \/ Return
    \/ \E p \in Producers : LogWrite(p)
    \/ \E p \in Producers : WriteEnqueue(p)
    \/ Deliver
    \/ Finish
    \/ \E c \in Closers : CloseAlone(c)
    \/ \E c \in Closers : CloseSet(c)
    \/ \E c \in Closers : CloseRestore(c)
    \/ \E c \in Closers : CloseStop(c)
    \/ \E c \in Closers : CloseReturn(c)

SpecRot == InitRot /\ [][NextRot]_vars

(***************************************************************************)
(* C1: the level gate                                                      *)
(***************************************************************************)
\* the level the handle of the last call has
LastLevel == Obj(lastOp.h).level

\* the entry level L passes the handle's level C
Passes(L, C) == L = CRITICAL \/ L <= C

\* a key position of the handle's WithValues list holds a non-string
BadKey(values) ==
    \E i \in 1..Len(values) : i % 2 = 1 /\ values[i] \notin Strings

LevelAtExact ==
    lastOp.op = "LevelAt" => (lastOp.ret <=> LastLevel >= lastOp.level)

\* C1 as stated: with a formatter set, every log call invokes the formatter
\* exactly once when L = CRITICAL or L <= C and never otherwise, and
\* LevelAt(L) is true exactly when C >= L.
C1_Original ==
    /\ (lastOp.op = "log" /\ lastOp.fmt # "nil") =>
            Len(lastOp.res.calls) =
                (IF Passes(lastOp.level, LastLevel) THEN 1 ELSE 0)
    /\ LevelAtExact

\* C1 amended: with a formatter set, a log call invokes the formatter exactly
\* once when L = CRITICAL or L <= C and never otherwise, except that Logf on
\* a handle whose WithValues list has a non-string key panics before it
\* reaches the formatter; LevelAt(L) is true exactly when C >= L.
C1_LevelGate ==
    /\ (lastOp.op = "log" /\ lastOp.fmt # "nil") =>
            LET abort == lastOp.kind = "Logf" /\ BadKey(Obj(lastOp.h).values)
                         /\ Passes(lastOp.level, LastLevel)
            IN  /\ abort => (lastOp.res.calls = <<>> /\ lastOp.res.panic)
                /\ ~abort =>
                      Len(lastOp.res.calls) =
                          (IF Passes(lastOp.level, LastLevel) THEN 1 ELSE 0)
    /\ LevelAtExact

\* an entry at exactly the handle's level went to the formatter, and an
\* entry one level above it was dropped on another call
C1_Witness ==
    /\ lastOp.op = "log"
    /\ lastOp.fmt # "nil"
    /\ lastOp.kind = "ContextKV"
    /\ lastOp.level = LastLevel
    /\ lastOp.level = WARNING
    /\ Len(lastOp.res.calls) = 1

(***************************************************************************)
(* The channel writer: what the destination has received                   *)
(***************************************************************************)
OkCalls == {i \in 1..Len(calls) : calls[i].result = "ok"}

LateCalls == {i \in 1..Len(calls) : calls[i].late}

SinkIds == [i \in 1..Len(sink) |-> sink[i].id]

Range(f) == {f[i] : i \in DOMAIN f}

StopReturned == \E s \in Stoppers : pcS[s] = "returned"

\* C2 -- no data loss on clean shutdown: once a Stop call has returned, the
\* destination has received one write for each Write call that returned
\* success, no more and no fewer, however Stop interleaved with the drain.
C2_NoDataLoss ==
    StopReturned =>
        /\ Len(sink) = Cardinality(OkCalls)
        /\ Range(SinkIds) = OkCalls

\* Stop was called while buffers were still queued, and has returned with
\* all of them (two or more) at the destination
C2_Witness ==
    /\ StopReturned
    /\ obs.stopQueued >= 1
    /\ Len(sink) >= 2
    /\ Len(sink) = Cardinality(OkCalls)

\* C3 -- FIFO delivery: at every moment the writes the destination has
\* received are, in order, a prefix of the buffers in the order Write
\* enqueued them: none reordered, duplicated or skipped.
C3_Fifo ==
    /\ Len(sink) <= Len(accepted)
    /\ \A i \in 1..Len(sink) : sink[i].id = accepted[i]

\* a buffer was delivered from a queue that held more than one, and the
\* destination has the first two enqueued in enqueue order
C3_Witness ==
    /\ Len(sink) >= 2
    /\ Len(accepted) >= 3
    /\ queue # <<>>
    /\ sink[1].id = accepted[1]
    /\ sink[2].id = accepted[2]

\* C4 -- Write does not retain the caller's buffer: the bytes the
\* destination receives for a Write call are the bytes the buffer held when
\* Write was called, also when the caller overwrote the buffer after Write
\* returned and before the background task delivered it.
C4_NoRetain ==
    \A i \in 1..Len(sink) : sink[i].data = calls[sink[i].id].data

\* a call whose caller had overwritten the buffer before delivery, and whose
\* bytes are at the destination as they were at the call
C4_Witness ==
    \E i \in 1..Len(sink) :
        /\ sink[i].id \in obs.dirty
        /\ sink[i].data = MsgOf(sink[i].id)
        /\ callerBuf[calls[sink[i].id].by] = Scribble

\* C5 -- Write after Stop: a Write call made once Stop has been called
\* returns the "writer stopped" error, never panics, and its buffer reaches
\* neither the queue nor the destination.
C5_WriteAfterStop ==
    /\ ~panicked
    /\ \A i \in LateCalls :
          /\ calls[i].result \in {"pending", "stopped"}
          /\ i \notin Range(SinkIds)
          /\ i \notin Range(accepted)

\* a Write made after Stop has returned the error, while an earlier one
\* was delivered
C5_Witness ==
    /\ \E i \in LateCalls : calls[i].result = "stopped"
    /\ \E s \in Stoppers : pcS[s] = "returned"
    /\ sink # <<>>
    /\ ~panicked

NoStopYet == \A s \in Stoppers : pcS[s] = "idle"

\* C6 -- idempotent, terminal Stop: IsStopped is false until the first Stop
\* call; once a Stop call has returned it is true and stays true; no Stop
\* call closes the closed channel (no panic); the writer never goes back to
\* Running.
C6_StopTerminal ==
    /\ [](NoStopYet => ~IsStopped)
    /\ [](StopReturned => IsStopped)
    /\ [](~panicked)
    /\ [][(IsStopped => IsStopped')
           /\ (cwState # "Running" => cwState' # "Running")]_vars

\* two Stop calls have returned, the writer is stopped and nothing panicked
C6_Witness ==
    /\ \A s \in Stoppers : pcS[s] = "returned"
    /\ IsStopped
    /\ chClosed
    /\ ~panicked

\* C7 -- Write and Stop from several threads at once: nothing panics, every
\* Write call and every Stop call returns, and once a Stop call has returned
\* the buffers at the destination are those of the Write calls that
\* returned success.
C7_Concurrent ==
    /\ [](~panicked)
    /\ \A p \in Producers : (pcW[p] = "writing") ~> (pcW[p] = "idle")
    /\ \A s \in Stoppers : (pcS[s] = "waiting") ~> (pcS[s] = "returned")
    /\ [](StopReturned =>
             {sink[i].data : i \in 1..Len(sink)}
                 = {calls[i].data : i \in OkCalls})

\* Stop closed the channel while a Write call was in flight; that call and
\* both Stop calls have returned, and earlier buffers are at the destination
C7_Witness ==
    /\ obs.stopInFlight # {}
    /\ \A i \in obs.stopInFlight : calls[i].result # "pending"
    /\ \A p \in Producers : pcW[p] = "idle"
    /\ \A s \in Stoppers : pcS[s] = "returned"
    /\ sink # <<>>
    /\ {sink[i].data : i \in 1..Len(sink)} = {calls[i].data : i \in OkCalls}

\* C8 -- periodic flush: a destination with a Flush method is flushed for
\* every tick the running writer takes, and the running writer takes every
\* tick, also when no Write is ever made; a destination without a Flush
\* method is never flushed.
C8_PeriodicFlush ==
    /\ [](~flushable => flushCount = 0)
    /\ [][(flushable /\ tickPending /\ ~tickPending')
              => flushCount' = flushCount + 1]_vars
    /\ (flushable /\ tickPending /\ cwState = "Running")
           ~> (~tickPending \/ cwState # "Running")

\* a running writer that was never written to has flushed its destination
\* on two ticks
C8_Witness ==
    /\ flushable
    /\ calls = <<>>
    /\ cwState = "Running"
    /\ flushCount >= 2
    /\ flushCount = ticks

(***************************************************************************)
(* The rotation wrapper's Close                                            *)
(***************************************************************************)
CloseStep == pcC' # pcC \/ closeLog' # closeLog

\* C9 -- Close of the rotation wrapper is exactly-once: of the Close calls
\* made one after the other on a handle, the first returns nil and every
\* later one returns the "already closed" error, and once the first has
\* returned no step of a Close call changes the global formatter, the
\* channel writer, the wrapper's fields or the file buffer.
C9_CloseOnce ==
    /\ [](\A i \in 1..Len(closeLog) :
             closeLog[i] = IF i = 1 THEN "nil" ELSE "already closed")
    /\ [][(closeLog # <<>> /\ CloseStep)
              => /\ formatter' = formatter
                 /\ cwVars' = cwVars
                 /\ rot' = rot
                 /\ fileFlushes' = fileFlushes]_vars

\* a buffered wrapper installed over formatter F1; the first Close returned
\* nil after the queued lines were written, other code then set formatter
\* F2, and a second Close returned the error and left F2 in place
C9_Witness ==
    /\ Len(closeLog) >= 2
    /\ closeLog[1] = "nil"
    /\ closeLog[2] = "already closed"
    /\ rot.buffered
    /\ rot.oldFormatter = "F1"
    /\ formatter = "F2"
    /\ IsStopped
    /\ sink # <<>>

(***************************************************************************)
(* C10: wildcard before specific                                           *)
(***************************************************************************)
\* C10: after SetLogLevel(m) with "*" in m, every registered package of the
\* repository named in m has the level m gives it and every other one has
\* the level of "*", whatever order the map was visited in.
C10_WildcardFirst ==
    (lastOp.op = "SetLogLevel" /\ "*" \in DOMAIN lastOp.m) =>
        \A pkg \in DOMAIN repoMap[lastOp.repo] :
            repoMap[lastOp.repo][pkg].level =
                (IF pkg \in DOMAIN lastOp.m THEN lastOp.m[pkg] ELSE lastOp.m["*"])

\* {"*": ERROR, "b": DEBUG} was applied to a repository holding a and b:
\* a is at ERROR and b at DEBUG
C10_Witness ==
    /\ lastOp.op = "SetLogLevel"
    /\ lastOp.m = [k \in {"*", "b"} |-> IF k = "*" THEN ERROR ELSE DEBUG]
    /\ DOMAIN repoMap[lastOp.repo] = {"a", "b"}
    /\ repoMap[lastOp.repo]["a"].level = ERROR
    /\ repoMap[lastOp.repo]["b"].level = DEBUG

(***************************************************************************)
(* The registry: what a call changes and what it leaves alone              *)
(***************************************************************************)
\* the (repository, package) pairs registered
RegPairs == {<<repo, pkg>> \in Repos \X Pkgs : RegisteredPkg(repo, pkg)}

\* the step is the call of op
Calls(op) == lastOp = NoOp /\ lastOp'.op = op

\* every object registered before the step is the same object after it, apart
\* perhaps from its level
SameObjects ==
    /\ DOMAIN repoMap' = DOMAIN repoMap
    /\ \A repo \in DOMAIN repoMap :
          /\ DOMAIN repoMap'[repo] = DOMAIN repoMap[repo]
          /\ \A pkg \in DOMAIN repoMap[repo] :
                /\ repoMap'[repo][pkg].pkg = repoMap[repo][pkg].pkg
                /\ repoMap'[repo][pkg].values = repoMap[repo][pkg].values

\* C11 -- SetGlobalLogLevel(l) sets the level of every package registered at
\* the time of the call to l and changes nothing else; a package that
\* NewPackageLogger registers afterwards starts at INFO, whatever level was
\* set globally before, and the registration changes no other level.
C11_GlobalLevelFrame ==
    [][/\ Calls("SetGlobalLogLevel") =>
             /\ SameObjects
             /\ \A repo \in DOMAIN repoMap : \A pkg \in DOMAIN repoMap[repo] :
                   repoMap'[repo][pkg].level = lastOp'.level
             /\ UNCHANGED <<derived, formatter, onError>>
       /\ (Calls("NewPackageLogger") /\ lastOp'.created) =>
             /\ repoMap'[lastOp'.repo][lastOp'.pkg].level = INFO
             /\ \A pr \in RegPairs :
                   repoMap'[pr[1]][pr[2]].level = repoMap[pr[1]][pr[2]].level]_vars

\* after a global DEBUG reached three packages in two repositories, a fourth
\* package was registered: it is at INFO and the three are still at DEBUG
C11_Witness ==
    /\ lastOp.op = "NewPackageLogger"
    /\ lastOp.created
    /\ Cardinality(RegPairs) = 4
    /\ repoMap[lastOp.repo][lastOp.pkg].level = INFO
    /\ \A pr \in RegPairs \ {<<lastOp.repo, lastOp.pkg>>} :
          repoMap[pr[1]][pr[2]].level = DEBUG

\* C12 -- NewPackageLogger is idempotent: the first call for a (repository,
\* package) registers an object at level INFO; a later call for the same pair
\* adds no registry entry and leaves that object, its level included, and
\* every other package as they were.
C12_Idempotent ==
    [][Calls("NewPackageLogger") =>
          IF RegisteredPkg(lastOp'.repo, lastOp'.pkg)
          THEN /\ ~lastOp'.created
               /\ repoMap' = repoMap
          ELSE /\ lastOp'.created
               /\ {<<repo, pkg>> \in Repos \X Pkgs :
                        repo \in DOMAIN repoMap' /\ pkg \in DOMAIN repoMap'[repo]}
                     = RegPairs \cup {<<lastOp'.repo, lastOp'.pkg>>}
               /\ repoMap'[lastOp'.repo][lastOp'.pkg]
                     = [pkg |-> lastOp'.pkg, level |-> INFO, values |-> <<>>]
               /\ \A pr \in RegPairs :
                     repoMap'[pr[1]][pr[2]] = repoMap[pr[1]][pr[2]]]_vars

\* a package set to DEBUG was asked for again: nothing was created and it is
\* still at DEBUG, beside a package at another level
C12_Witness ==
    /\ lastOp.op = "NewPackageLogger"
    /\ ~lastOp.created
    /\ repoMap[lastOp.repo][lastOp.pkg].level = DEBUG
    /\ \E pr \in RegPairs : repoMap[pr[1]][pr[2]].level = ERROR

(***************************************************************************)
(* The handles WithValues returns                                          *)
(***************************************************************************)
\* the level the registry holds for the package a handle names
RegistryLevel(h) ==
    LET pkg == Obj(h).pkg
        repo == CHOOSE r \in DOMAIN repoMap : pkg \in DOMAIN repoMap[r]
    IN  repoMap[repo][pkg].level

\* C13 -- level changes propagate to handles: a log call or LevelAt on any
\* handle of a package, the registered one or one WithValues returned before
\* the change, is gated by the level the registry holds for the package now.
C13_LevelPropagates ==
    /\ (lastOp.op = "log" /\ lastOp.fmt # "nil") =>
          IF Passes(lastOp.level, RegistryLevel(lastOp.h))
          THEN Len(lastOp.res.calls) = 1 \/ lastOp.res.panic
          ELSE lastOp.res.calls = <<>>
    /\ lastOp.op = "LevelAt" =>
          (lastOp.ret <=> RegistryLevel(lastOp.h) >= lastOp.level)

\* C14 -- WithValues gives an independent copy: the key-value sequence of
\* every handle WithValues returned is, at any later time, the sequence it
\* was made with (its parent's at that time, then its own pairs), whatever
\* WithValues and log calls were made on other handles since.
C14_IndependentCopy ==
    \A i \in 1..Len(derived) : derived[i].values = derived[i].made

(***************************************************************************)
(* The error hook                                                          *)
(***************************************************************************)
\* C15 -- error hook: with an onError callback registered, a log call at
\* level ERROR invokes it exactly once with the handle's package name,
\* whether or not the entry passes the level check; a log call at any other
\* level, CRITICAL included, and any call without a callback, invokes nothing.
C15_ErrorHook ==
    lastOp.op = "log" =>
        lastOp.res.onErr =
            (IF lastOp.level = ERROR /\ onError
             THEN <<Obj(lastOp.h).pkg>> ELSE <<>>)

\* an ERROR entry on a handle at CRITICAL: dropped by the level check, with a
\* formatter set, and the hook was called once for package a
C15_Witness ==
    /\ lastOp.op = "log"
    /\ lastOp.level = ERROR
    /\ onError
    /\ lastOp.fmt # "nil"
    /\ LastLevel = CRITICAL
    /\ lastOp.res.calls = <<>>
    /\ lastOp.res.onErr = <<"a">>

(***************************************************************************)
(* The setters and the lookup that take names                              *)
(***************************************************************************)
\* the registry rm after the well-formed entries of cfgs, in order
RECURSIVE WellFormedApplied(_, _)
WellFormedApplied(rm, cfgs) ==
    IF cfgs = <<>> THEN rm
    ELSE WellFormedApplied(SetRepoLevelMap_Skips(rm, Head(cfgs)), Tail(cfgs))

\* C16 -- lenient level list: SetRepoLevels leaves the registry as the
\* entries with a well-formed level, applied in order, leave it; an entry
\* with a malformed level changes no package's level.
C16_LenientList ==
    [][Calls("SetRepoLevels") =>
          repoMap' = WellFormedApplied(repoMap, lastOp'.cfgs)]_vars

(***************************************************************************)
(* The arguments of KV and ContextKV                                       *)
(***************************************************************************)
\* C17 -- KV argument check: a KV or ContextKV call whose trailing arguments
\* have an odd count, or hold a non-string where a key stands, panics; stated
\* here for the calls that reach a formatter (one is set and the level
\* passes).
C17_KVArgumentCheck ==
    (/\ lastOp.op = "log"
     /\ lastOp.kind \in {"KV", "ContextKV"}
     /\ lastOp.fmt # "nil"
     /\ Passes(lastOp.level, LastLevel)
     /\ (Len(lastOp.entries) % 2 = 1 \/ BadKey(lastOp.entries)))
        => lastOp.res.panic

\* the packages the call recorded in op names: those of its repository that
\* its argument gives by name, all of the repository's for "*", "" or the
\* function that takes only the repository
NamedBy(op) ==
    IF op.op = "SetLogLevel"
    THEN IF "*" \in DOMAIN op.m THEN {op.repo} \X (Pkgs \cup MapKeys)
         ELSE {op.repo} \X DOMAIN op.m
    ELSE IF op.op = "SetPackageLogLevel"
    THEN IF op.pkg \in {"", "*"} THEN {op.repo} \X Pkgs
         ELSE {<<op.repo, op.pkg>>}
    ELSE IF op.op = "SetRepoLogLevelByName" THEN {op.repo} \X Pkgs
    ELSE {}

NameOps == {"SetLogLevel", "SetPackageLogLevel", "SetRepoLogLevelByName"}

\* the call recorded in op gives a repository or a package never registered
NamesUnknown(op) ==
    /\ op.op \in NameOps
    /\ \/ ~Registered(op.repo)
       \/ op.op = "SetPackageLogLevel" /\ op.pkg \notin {"", "*"}
             /\ ~RegisteredPkg(op.repo, op.pkg)
       \/ op.op = "SetLogLevel"
             /\ \E k \in DOMAIN op.m \ {"*"} : ~RegisteredPkg(op.repo, k)

\* C18 -- unknown names are ignored: a SetLogLevel, SetPackageLogLevel or
\* SetRepoLogLevel call, whether or not the names it gives are registered,
\* creates no registry entry and leaves the level of every registered package
\* it does not name as it was
C18_UnknownNamesIgnored ==
    [][(lastOp = NoOp /\ lastOp'.op \in NameOps)
          => /\ SameObjects
             /\ \A pr \in RegPairs \ NamedBy(lastOp') :
                   repoMap'[pr[1]][pr[2]].level = repoMap[pr[1]][pr[2]].level]_vars

\* a call giving an unknown repository or package has returned while a
\* package is registered at a level other than the one the call gave
C18_Witness ==
    /\ NamesUnknown(lastOp)
    /\ lastOp.op = "SetPackageLogLevel"
    /\ lastOp.pkg = "c"
    /\ lastOp.repo = "r1"
    /\ RegisteredPkg("r1", "a")
    /\ repoMap["r1"]["a"].level # lastOp.level

\* C19 -- repository lookup: GetRepoLogger(repo) creates no registry entry;
\* it returns an error, and MustRepoLogger panics, exactly when no package of
\* repo was registered before the call; otherwise it returns the
\* repository's package map, which holds at least one package
C19_RepoLookup ==
    [][Calls("GetRepoLogger")
          => /\ repoMap' = repoMap
             /\ lastOp'.err <=> ~Registered(lastOp'.repo)
             /\ lastOp'.mustPanics <=> ~Registered(lastOp'.repo)
             /\ Registered(lastOp'.repo)
                   => /\ lastOp'.ret = repoMap[lastOp'.repo]
                      /\ DOMAIN lastOp'.ret # {}]_vars

\* a lookup of a repository never registered has failed while another
\* repository is registered
C19_Witness ==
    /\ lastOp.op = "GetRepoLogger"
    /\ lastOp.err
    /\ lastOp.mustPanics
    /\ ~Registered(lastOp.repo)
    /\ DOMAIN repoMap # {}

\* a producer is inside the writer's Write and cannot go on: the writer is
\* Running, its channel is open and full
BlockedInWrite(p) ==
    /\ pcW[p] = "writing"
    /\ cwState = "Running"
    /\ ~chClosed
    /\ Len(queue) = QueueCap

\* C20 -- a slow sink never stalls the registry: no thread holds the registry
\* lock (so that LevelAt, SetFormatter, GetFormatter and the level setters of
\* other threads can complete) while it is blocked in the writer's Write on a
\* full queue
C20_SlowSinkNoStall ==
    ~(RegistryBusy /\ \E p \in Producers : BlockedInWrite(p))

\* C21 -- registry mutual exclusion: in no interleaving of level changes,
\* formatter swaps, WithValues and log emission is one thread about to read a
\* package's level, the repository map or the formatter reference while
\* another is about to write it, unless the mutex orders them
C21_MutualExclusion ==
    \A t1, t2 \in Threads : ~DataRace(t1, t2)

\* the positions of event e in the sequence es
Places(es, e) == {i \in DOMAIN es : es[i] = e}

\* the last thing a Fatal or Panic helper does
Ending(kind) == IF kind \in {"Fatal", "Fatalf"} THEN "ExitFunc(1)" ELSE "panic"

\* the formatter got the entry, once, at CRITICAL, from package pkg
EmittedCritical(op) ==
    /\ Len(op.res.calls) = 1
    /\ op.res.calls[1].level = CRITICAL
    /\ op.res.calls[1].pkg = Obj(op.h).pkg
    /\ Cardinality(Places(op.events, "format")) = 1

\* the helper ended as its kind says, once, after the entry went out and
\* after the registry lock was released
EndsAfterUnlock(op) ==
    /\ Cardinality(Places(op.events, Ending(op.kind))) = 1
    /\ op.events[Len(op.events)] = Ending(op.kind)
    /\ \A i \in Places(op.events, "format") \cup Places(op.events, "unlock"),
          j \in Places(op.events, Ending(op.kind)) : i < j
    /\ Cardinality(Places(op.events, "lock")) = 1
    /\ Cardinality(Places(op.events, "unlock")) = 1

\* Fatalf on a handle whose WithValues list has a key that is no string
FatalfBadKey(op) ==
    op.kind = "Fatalf" /\ Len(Obj(op.h).values) > 0 /\ BadKey(Obj(op.h).values)

\* C22 as stated: with a formatter set, every Fatal / Fatalf / Panic / Panicf
\* call emits its entry at CRITICAL whatever the configured level, and every
\* such call then calls ExitFunc(1) exactly once, or panics, after the
\* registry lock was released
C22_Original ==
    lastOp.op = "fatal"
        => /\ lastOp.fmt # "nil" => EmittedCritical(lastOp)
           /\ EndsAfterUnlock(lastOp)

\* C22 amended: the same, except that Fatalf on a handle whose WithValues
\* list has a non-string key panics in flatten, with the lock released,
\* before the formatter and ExitFunc are called
C22_FatalPanic ==
    lastOp.op = "fatal"
        => IF FatalfBadKey(lastOp)
           THEN /\ lastOp.fmt # "nil"
                    => /\ lastOp.res.panic
                       /\ lastOp.res.calls = <<>>
                       /\ Places(lastOp.events, "ExitFunc(1)") = {}
                       /\ \A i \in Places(lastOp.events, "unlock"),
                             j \in Places(lastOp.events, "panic in flatten") :
                             i < j
                /\ lastOp.fmt = "nil" => EndsAfterUnlock(lastOp)
           ELSE /\ lastOp.fmt # "nil" => EmittedCritical(lastOp)
                /\ EndsAfterUnlock(lastOp)

\* Fatal on a package set to ERROR has emitted at CRITICAL and called
\* ExitFunc(1)
C22_Witness ==
    /\ lastOp.op = "fatal"
    /\ lastOp.kind = "Fatal"
    /\ lastOp.fmt # "nil"
    /\ Obj(lastOp.h).level = ERROR
    /\ EmittedCritical(lastOp)
    /\ lastOp.events = <<"lock", "format", "unlock", "ExitFunc(1)">>

\* the place of key k in ascending string order
KeyRank(k) == CHOOSE i \in DOMAIN CtxKeys : CtxKeys[i] = k

\* the keys of an alternating key/value list, in its order
KeysOf(es) == [i \in 1..(Len(es) \div 2) |-> es[2 * i - 1]]

C24_Accumulates ==
    (lastOp.op = "ContextWithKV" /\ lastOp.from = "ctx" /\ ~lastOp.panic
        /\ \A i \in DOMAIN lastOp.entries :
               i % 2 = 0 => lastOp.entries[i] \notin {"nil", ""})
        => /\ lastOp.same
           /\ Len(ContextEntries(ctx)) = Len(lastOp.before) + Len(lastOp.entries)

\* every value of the argument list is nil or the empty string
OnlyEmptyValues(es) ==
    /\ es # <<>>
    /\ Len(es) % 2 = 0
    /\ \A i \in DOMAIN es : i % 2 = 0 => es[i] \in {"nil", ""}

\* C25 -- ContextWithKV ignores nil and empty-string values: after a call
\* whose pairs all have a nil or "" value the context carries the entries it
\* carried before, for every key
C25_EmptyIgnored ==
    (lastOp.op = "ContextWithKV" /\ lastOp.from = "ctx" /\ ~lastOp.panic
        /\ OnlyEmptyValues(lastOp.entries))
        => ContextEntries(ctx) = lastOp.before

\* C26 -- ContextKV entry order: for a ContextKV call that passes the level
\* check with a formatter set, FormatKV is called once with the handle's
\* values, then the entries the context carries, then the entries of the
\* call; with a context carrying none the call does what KV does
C26_ContextKVOrder ==
    [][(/\ Calls("log")
        /\ lastOp'.kind = "ContextKV"
        /\ formatter # "nil"
        /\ Passes(lastOp'.level, Obj(lastOp'.h).level))
          => /\ Len(lastOp'.res.calls) = 1
             /\ lastOp'.res.calls[1].fn = "FormatKV"
             /\ lastOp'.res.calls[1].entries =
                   Obj(lastOp'.h).values \o ContextEntries(ctx) \o lastOp'.entries
             /\ ContextEntries(ctx) = <<>>
                   => lastOp'.res = LogResult(Obj(lastOp'.h), "KV", lastOp'.level,
                                              <<>>, lastOp'.entries)]_vars

\* a ContextKV call on a handle with values, with a context carrying two
\* pairs and with entries of its own, has reached the formatter
C26_Witness ==
    /\ lastOp.op = "log"
    /\ lastOp.kind = "ContextKV"
    /\ Len(Obj(lastOp.h).values) > 0
    /\ Len(lastOp.extra) = 4
    /\ lastOp.extra = ContextEntries(ctx)
    /\ Len(lastOp.entries) > 0
    /\ Len(lastOp.res.calls) = 1
    /\ Len(lastOp.res.calls[1].entries) = 8

\* the first Close call has returned nil
FirstCloseReturned == closeLog # <<>> /\ closeLog[1] = "nil"

\* the line of Write call id is in the file
InFile(id) == \E j \in 1..FileLines : j <= Len(sink) /\ sink[j].id = id

\* C27 -- Close flushes everything to disk: when every log call has returned
\* before Close is called, then once Close of a wrapper made with
\* buffered = true and no extraSink has returned, every line the channel
\* writer accepted is in the file, and nothing is left in the channel queue
\* or in the file buffer
C27_CloseFlushesAll ==
    (FirstCloseReturned /\ rot.buffered /\ rot.fileBuf)
        => /\ queue = <<>>
           /\ FileLines = Len(sink)
           /\ \A i \in 1..Len(accepted) : InFile(accepted[i])

\* C28 -- Close restores the prior formatter: Initialize keeps the formatter
\* that is the global one when it is called (possibly none), and once the
\* first Close has returned, with no other code setting the formatter since
\* Close was called, GetFormatter() returns that formatter
C28_RestoresFormatter ==
    /\ [][(~rot.made /\ rot'.made) => rot'.oldFormatter = formatter]_vars
    /\ [][rot.made => rot'.oldFormatter = rot.oldFormatter]_vars
    /\ [](FirstCloseReturned => formatter = rot.oldFormatter)

\* a buffered wrapper was installed over formatter F1, a line was logged
\* through it, and the first Close has returned with F1 back in place
C28_Witness ==
    /\ FirstCloseReturned
    /\ rot.buffered
    /\ rot.oldFormatter = "F1"
    /\ formatter = "F1"
    /\ accepted # <<>>

\* a Write call that is waiting for room in the full queue of the running
\* writer
Blocked(p) ==
    /\ pcW[p] = "writing"
    /\ cwState = "Running"
    /\ Len(queue) = QueueCap

\* C29 -- bounded queue with blocking backpressure: the queue never holds
\* more than QueueCap buffers; a Write call that finds the running writer's
\* queue full stays in Write, without a result, for as long as the queue is
\* full and the writer runs; a Write call that returns while the writer runs
\* has enqueued its buffer and returns success; and a blocked call goes on
\* once the background task has freed a slot: it ends enqueued, unless Stop
\* was called meanwhile.
C29_Backpressure ==
    /\ [](Len(queue) <= QueueCap)
    /\ [][\A p \in Producers :
            Blocked(p) =>
                /\ pcW'[p] = "writing"
                /\ calls'[callOf[p]].result = "pending"
                /\ Len(queue') <= Len(queue)]_vars
    /\ [][\A p \in Producers :
            (pcW[p] = "writing" /\ pcW'[p] = "idle" /\ cwState = "Running") =>
                /\ queue' = Append(queue, CopyOf(p))
                /\ calls'[callOf[p]].result = "ok"]_vars
    /\ \A p \in Producers :
          Blocked(p) ~>
              (cwState # "Running" \/ callOf[p] \in Range(accepted))

\* a Write call made while the queue was full has been enqueued, after the
\* background task delivered a buffer, and the writer still runs
C29_Witness ==
    /\ cwState = "Running"
    /\ \E i \in obs.full : calls[i].result = "ok" /\ i \in Range(accepted)
    /\ sink # <<>>
    /\ ~panicked

\* the place of call i in the order Write enqueued the buffers
EnqueuedAt(i) == CHOOSE k \in 1..Len(accepted) : accepted[k] = i

\* the calls whose buffer the background task has handed to the destination
Handed == Range(SinkIds) \cup obs.failed

\* C30 -- sink errors do not stop the writer: when the destination's Write
\* returns an error for a buffer, the background task stays in the state it
\* was in and no Write call's result changes; the calls whose buffer failed
\* have returned success; at every moment the buffers handed to the
\* destination, failed or not, are the first ones enqueued, and those it took
\* are in enqueue order; every enqueued buffer is handed to the destination;
\* and every Stop call returns, with the queue drained.
C30_SinkErrors ==
    /\ [](~panicked)
    /\ [][obs'.failed # obs.failed =>
            /\ cwState' = cwState
            /\ calls' = calls]_vars
    /\ [](\A i \in obs.failed : calls[i].result = "ok")
    /\ [](/\ Cardinality(Handed) <= Len(accepted)
          /\ Handed = {accepted[k] : k \in 1..Cardinality(Handed)}
          /\ \A i, j \in 1..Len(sink) :
                i < j => EnqueuedAt(sink[i].id) < EnqueuedAt(sink[j].id))
    /\ []<>(Handed = Range(accepted))
    /\ \A s \in Stoppers : (pcS[s] = "waiting") ~> (pcS[s] = "returned")
    /\ [](StopReturned => queue = <<>> /\ Handed = Range(accepted))

\* the destination returned an error for one buffer and took a buffer
\* enqueued after it, and a Stop call that found a buffer queued has returned
C30_Witness ==
    /\ \E i \in obs.failed : \E k \in 1..Len(sink) :
          EnqueuedAt(sink[k].id) > EnqueuedAt(i)
    /\ StopReturned
    /\ obs.stopQueued >= 1
    /\ queue = <<>>
    /\ ~panicked

\* thread t is inside the onError callback, in a call of the callback that
\* waits for the registry mutex
InHookCall(t) == thr[t].pc = "relock"

\* C31 -- the onError hook runs under the registry lock: the logging thread
\* calls the callback itself, holding the registry mutex; a callback that
\* calls a Logger handle or the registry never gets the mutex, so it never
\* returns and the mutex is never released; every other thread that waits for
\* the mutex then waits forever.
C31_HookDeadlock ==
    /\ [](\A t \in Threads :
            (thr[t].pc = "held" /\ HookDue(t)) \/ thr[t].pc \in {"gate", "relock"}
                => mu = t)
    /\ [][\A t \in Threads :
            InHookCall(t) => InHookCall(t)' /\ mu' = t]_vars
    /\ [][\A t, u \in Threads :
            (InHookCall(t) /\ thr[u].pc = "lock") => thr'[u].pc = "lock"]_vars

\* a callback called by an ERROR entry is waiting for the mutex its own
\* thread holds, and the other thread, logging too, waits for the mutex
C31_Witness ==
    \E t, u \in Threads :
        /\ InHookCall(t)
        /\ mu = t
        /\ thr[u].pc = "lock"
        /\ thr[u].call.op = "KV"

\* the Close calls that returned nil
NilCloses == {i \in 1..Len(closeLog) : closeLog[i] = "nil"}

\* the Close calls that are past the closed check: they go on to flush,
\* restore and stop
PastCheck == {c \in Closers : pcC[c] # "idle"}

\* C32 -- exactly-once Close under concurrency: of the Close calls threads
\* make on one wrapper at the same time, at most one gets past the closed
\* check and returns nil, and the file buffer is flushed at most once; the
\* others return the "already closed" error.
C32_CloseOnceConcurrent ==
    /\ Cardinality(NilCloses) <= 1
    /\ Cardinality(PastCheck) <= 1
    /\ fileFlushes <= 1

\* the strings that name a level: its name, its letter, and for ERROR..DEBUG
\* its number
LevelNames ==
    {String(l) : l \in Levels} \cup {Char(l) : l \in Levels}
        \cup {Itoa(n) : n \in ERROR..DEBUG}

\* C33 -- level parsing round trip: ParseLevel gives back the level whose
\* String or Char it is handed, without error; the decimal strings of 0..5
\* parse to the level with that number; every other string gets an error
\* whose message holds the string.
C33_ParseRoundTrip ==
    /\ lastOp.op = "RoundTrip" => lastOp.level = lastOp.l /\ ~lastOp.err
    /\ lastOp.op = "ParseLevel" =>
          /\ \A n \in ERROR..DEBUG :
                lastOp.str = Itoa(n) => lastOp.level = n /\ ~lastOp.err
          /\ lastOp.str \in LevelNames => ~lastOp.err
          /\ lastOp.str \notin LevelNames =>
                /\ lastOp.err
                /\ \E i \in DOMAIN lastOp.msg : lastOp.msg[i] = lastOp.str

\* the name of DEBUG came back as DEBUG
C33_Witness ==
    /\ lastOp.op = "RoundTrip"
    /\ lastOp.via = "String"
    /\ lastOp.l = DEBUG
    /\ lastOp.str = "DEBUG"
    /\ lastOp.level = DEBUG

PastGate(t) == thr[t].pc \in {"emit", "unlock"}

\* C35 -- atomic gate and emission: from the level check of a log call to
\* the return of its call to the formatter the calling thread holds the
\* registry mutex, and neither the level of the handle nor the global
\* formatter changes; the entry has passed the gate against the level the
\* handle has when it is emitted, and it is handed to one formatter, the one
\* that is the global formatter at that moment, which is the one the call
\* found set.
C35_AtomicEmission ==
    /\ [](\A t \in Threads : PastGate(t) => mu = t)
    /\ [][\A t \in Threads :
            PastGate(t) =>
                /\ formatter' = formatter
                /\ LET h == thr[t].call.h
                   IN  (IF h[3] = 0 THEN repoMap'[h[1]][h[2]]
                        ELSE derived'[h[3]]).level = Obj(h).level]_vars
    /\ [](\A t \in Threads :
            thr[t].pc = "unlock" =>
                /\ ~Filtered(Obj(thr[t].call.h).level, thr[t].call.level)
                /\ thr[t].lvl = Obj(thr[t].call.h).level
                /\ thr[t].out = formatter
                /\ thr[t].out = thr[t].fmt
                /\ thr[t].out # "nil")

\* a DEBUG entry was handed to formatter F2 while the other thread waits for
\* the mutex with a call that would filter it out, after the level and the
\* formatter had been changed
C35_Witness ==
    \E t, u \in Threads :
        /\ thr[t].pc = "unlock"
        /\ thr[t].call.level = DEBUG
        /\ thr[t].out = "F2"
        /\ thr[u].pc = "lock"
        /\ thr[u].call.op = "SetGlobalLogLevel"
        /\ thr[u].call.level = ERROR

\* thread t is inside a function of the registry, between Lock and Unlock
InLocked(t) == thr[t].pc \in {"held", "gate", "emit", "unlock", "panicking"}

\* C36 -- a panic inside a log call does not wedge the registry: a log call
\* that panics, in the formatter or in the onError callback, leaves the
\* registry mutex free; the mutex is never held by a thread that is outside
\* the registry; and every call that waits for the mutex, from any thread,
\* gets it and returns.
C36_PanicReleases ==
    /\ [][\A t \in Threads :
            (thr[t].pc = "panicking" /\ thr'[t].pc # "panicking") =>
                mu' = "none"]_vars
    /\ [](\A t \in Threads : mu = t => InLocked(t))
    /\ \A t \in Threads : (thr[t].pc = "lock") ~> (thr[t].pc = "idle")

\* a thread whose KV call panics on a key that is no string holds the mutex
\* while the other thread waits for it with a SetFormatter call
C36_Witness ==
    \E t, u \in Threads :
        /\ thr[t].pc = "panicking"
        /\ thr[t].call.op = "Log"
        /\ mu = t
        /\ thr[u].pc = "lock"
        /\ thr[u].call.op = "SetFormatter"

\* C37 -- no write reaches a stopped channel writer through the registry:
\* Close restores the formatter, under the registry lock, before it stops the
\* channel writer, so once Stop has begun no log call is inside the writer's
\* Write, no Write call is made on it, and no call has got the "writer
\* stopped" error or a panic.
C37_NoWriteAfterStop ==
    /\ cwState # "Running" => \A p \in Producers : pcW[p] = "idle"
    /\ LateCalls = {}
    /\ \A i \in 1..Len(calls) : calls[i].result \in {"pending", "ok"}
    /\ ~panicked

\* Close has restored the formatter and begun Stop while lines of earlier
\* log calls are still queued
C37_Witness ==
    /\ cwState = "Stopping"
    /\ queue # <<>>
    /\ Len(calls) >= 2
    /\ rot.closed
    /\ formatter = rot.oldFormatter
    /\ formatter # RotFormatter

\* the wrapper made first, and the formatter in place before it was made
FirstWrapper ==
    CHOOSE w \in Wrappers :
        wraps[w].made /\ wraps[w].oldFormatter \notin {FormatterOf(v) : v \in Wrappers}

AllClosed ==
    /\ \E w \in Wrappers : wraps[w].made
    /\ \A w \in Wrappers : wraps[w].made => wraps[w].closed

\* C38 -- overlapping rotation wrappers: whatever the order in which several
\* wrappers are made and closed, once every wrapper made has been closed the
\* global formatter is the one in place before the first Initialize, and the
\* global formatter is never that of a wrapper that has been closed.
C38_Overlapping ==
    /\ AllClosed => formatter = wraps[FirstWrapper].oldFormatter
    /\ \A w \in Wrappers : wraps[w].closed => formatter # FormatterOf(w)

\* C39 -- level snapshot round trip: SetRepoLevels(GetRepoLevels()) leaves
\* the level of every registered package as it was, for every registry
\* state, also when a repository has a package registered under the empty
\* name.
C39_SnapshotRoundTrip ==
    lastOp.op = "SnapshotRoundTrip" =>
        /\ DOMAIN repoMap = DOMAIN lastOp.before
        /\ \A repo \in DOMAIN repoMap, pkg \in {"", "a"} :
              pkg \in DOMAIN repoMap[repo] =>
                  repoMap[repo][pkg].level = lastOp.before[repo][pkg].level

\* C40 -- no formatter configured: while the global formatter is nil, a log
\* call at any level and a Flush call on a handle return without panic and
\* hand nothing to a formatter.
C40_NilFormatterSafe ==
    (lastOp.op \in {"log", "Flush"} /\ lastOp.fmt = "nil") =>
        /\ ~lastOp.res.panic
        /\ lastOp.res.calls = <<>>

====
